---- MODULE Spec2Model ----
(***************************************************************************)
(* A model of the retrieval-and-answering core of the RAG service:         *)
(*   - AskService (document path): chunker, embedding client, per-request  *)
(*     vector store, similarity search, answer gateway;                    *)
(*   - DatabaseQueryService (dataset path): query classifier, retrieval    *)
(*     strategy, context formatter, answer gateway.                        *)
(*                                                                         *)
(* Conventions.  A JavaScript string is a sequence of one-character        *)
(* strings.  An Error is a record [msg, code]: msg is the message as a     *)
(* sequence of fragments, code is the error's `code` property ("" when it  *)
(* has none).  A cosine score is kept exactly, as the record [num, den]    *)
(* that stands for sign(num) * sqrt(|num| / den), so that scores are       *)
(* compared without rounding.                                              *)
(***************************************************************************)
EXTENDS Integers, Sequences, FiniteSets, TLC

VARIABLES
  memoryStores,  \* AskService.memoryStores: request id -> sequence of {text, embedding}
  api,           \* the last vector-store operation applied directly, and its result
  doc,           \* per request of the document path: its position and locals
  db,            \* the request of the dataset path: its position and locals
  rule,          \* the last question put to the rule tier directly, and its result
  chunker        \* the last text put to the chunker directly, and its result

vars == <<memoryStores, api, doc, db, rule, chunker>>

-----------------------------------------------------------------------------
(* Bounds of the model.                                                    *)

MaxRecords == 3   \* most records held by the store at once when it is driven directly
MaxTopK == 4      \* largest topK passed to a direct search
MaxPhrases == 3   \* most phrases in a question put to the rule tier directly
MaxSentences == 3 \* most sentences in a text put to the chunker directly

-----------------------------------------------------------------------------
(* Strings and errors.                                                     *)

Min(a, b) == IF a < b THEN a ELSE b

Whitespace == {" ", "\n", "\t"}

RECURSIVE TrimStart(_)
TrimStart(s) ==
  IF s # <<>> /\ Head(s) \in Whitespace THEN TrimStart(Tail(s)) ELSE s

RECURSIVE TrimEnd(_)
TrimEnd(s) ==
  IF s # <<>> /\ s[Len(s)] \in Whitespace
  THEN TrimEnd(SubSeq(s, 1, Len(s) - 1))
  ELSE s

\* String.prototype.trim
Trim(s) == TrimEnd(TrimStart(s))

\* new Error(msg)
Err(msg) == [msg |-> msg, code |-> ""]

NoError == [msg |-> <<>>, code |-> ""]

-----------------------------------------------------------------------------
(* Vector store and similarity search (AskService).                        *)

RequestIds == {"r1", "r2"}

EmptyMap == [k \in {} |-> <<>>]

MapSet(m, k, v) == [x \in DOMAIN m \cup {k} |-> IF x = k THEN v ELSE m[x]]

MapDelete(m, k) == [x \in DOMAIN m \ {k} |-> m[x]]

RECURSIVE DotTo(_, _, _)
DotTo(a, b, n) == IF n = 0 THEN 0 ELSE DotTo(a, b, n - 1) + a[n] * b[n]

\* math.dot on two arrays of equal length
Dot(a, b) == DotTo(a, b, Len(a))

\* math.norm(a) squared; math.norm(a) === 0 exactly when this is 0
NormSq(a) == Dot(a, a)

Sign(x) == IF x > 0 THEN 1 ELSE IF x < 0 THEN -1 ELSE 0

ZeroScore == [num |-> 0, den |-> 1]

ScoreLess(s, t) == s.num * t.den < t.num * s.den

ScoreEq(s, t) == s.num * t.den = t.num * s.den

\* the threshold test with 0 in place of 0.1
BelowZero(s) == s.num < 0

\* score < 0.1, that is sign(num) * sqrt(|num|/den) < 1/10
BelowThreshold(s) == s.num * 100 < s.den

\* cosineSimilarity without the test of the norms: a zero norm raises
cosineSimilarityZeroRaises(a, b) ==
  IF Len(a) # Len(b) \/ NormSq(a) = 0 \/ NormSq(b) = 0
  THEN [threw |-> TRUE, err |-> Err(<<"Invalid vectors for similarity calculation">>),
        score |-> ZeroScore]
  ELSE [threw |-> FALSE, err |-> NoError,
        score |-> [num |-> Sign(Dot(a, b)) * Dot(a, b) * Dot(a, b),
                   den |-> NormSq(a) * NormSq(b)]]

\* cosineSimilarity(a, b): [threw, err, score]
cosineSimilarity(a, b) ==
  IF Len(a) # Len(b)
  THEN [threw |-> TRUE, err |-> Err(<<"Invalid vectors for similarity calculation">>),
        score |-> ZeroScore]
  ELSE IF NormSq(a) = 0 \/ NormSq(b) = 0
  THEN [threw |-> FALSE, err |-> NoError, score |-> ZeroScore]
  ELSE [threw |-> FALSE, err |-> NoError,
        score |-> [num |-> Sign(Dot(a, b)) * Dot(a, b) * Dot(a, b),
                   den |-> NormSq(a) * NormSq(b)]]

\* the comparator written a.score - b.score
CompareScoreAscending(a, b) ==
  IF ScoreLess(b.score, a.score) THEN 1
  ELSE IF ScoreLess(a.score, b.score) THEN -1
  ELSE 0

\* the comparator (a, b) => b.score - a.score, as its sign
CompareScore(a, b) ==
  IF ScoreLess(a.score, b.score) THEN 1
  ELSE IF ScoreLess(b.score, a.score) THEN -1
  ELSE 0

\* x placed into the sorted sequence s after every element that does not
\* have to follow it: the insertion step of a stable sort
RECURSIVE InsertSorted(_, _)
InsertSorted(s, x) ==
  IF s = <<>> THEN <<x>>
  ELSE IF CompareScore(Head(s), x) > 0 THEN <<x>> \o s
  ELSE <<Head(s)>> \o InsertSorted(Tail(s), x)

\* Array.prototype.sort with CompareScore (stable)
RECURSIVE SortByScore(_)
SortByScore(s) ==
  IF s = <<>> THEN <<>>
  ELSE InsertSorted(SortByScore(SubSeq(s, 1, Len(s) - 1)), s[Len(s)])

\* Array.prototype.slice(0, k) for k >= 0
SliceTo(s, k) == SubSeq(s, 1, Min(k, Len(s)))

\* storeEmbeddingsInMemory: texts.map((t, i) => ({text: t, embedding: embeddings[i]}))
storeEmbeddingsInMemory(stores, embeddings, texts, requestId) ==
  MapSet(stores, requestId,
         [i \in 1 .. Len(texts) |-> [text |-> texts[i], embedding |-> embeddings[i]]])

\* a release that empties the entry and leaves the key
releaseStoreClear(stores, requestId) ==
  [x \in DOMAIN stores |-> IF x = requestId THEN <<>> ELSE stores[x]]

\* a release that clears the whole map
releaseStoreAll(stores, requestId) == EmptyMap

\* the finally block of askFromPdf: this.memoryStores.delete(requestId)
releaseStore(stores, requestId) == MapDelete(stores, requestId)

\* searchRelevantChunks: [threw, err, chunks], chunks a sequence of {text, score}
searchRelevantChunks(stores, questionEmbedding, requestId, topK) ==
  IF requestId \notin DOMAIN stores
  THEN [threw |-> TRUE, err |-> Err(<<"No embeddings found for this request">>),
        chunks |-> <<>>]
  ELSE
    LET store == stores[requestId]
        sims == [i \in 1 .. Len(store) |->
                   cosineSimilarity(questionEmbedding, store[i].embedding)]
        bad == {i \in 1 .. Len(store) : sims[i].threw}
        mapped == [i \in 1 .. Len(store) |->
                     [text |-> store[i].text, score |-> sims[i].score]]
    IN IF bad # {}
       THEN [threw |-> TRUE,
             err |-> sims[CHOOSE i \in bad : \A j \in bad : i <= j].err,
             chunks |-> <<>>]
       ELSE [threw |-> FALSE, err |-> NoError,
             chunks |-> SliceTo(SortByScore(mapped), topK)]

-----------------------------------------------------------------------------
(* The vector store driven directly: put, search and release in any order. *)

Vectors == {<<1, 0>>, <<0, 1>>, <<0, 0>>}

QueryVectors == {<<-1, 1>>, <<0, 0>>, <<1>>}

ChunkNames == <<"c1", "c2", "c3", "c4", "c5">>

NoResult == [threw |-> FALSE, err |-> NoError, chunks |-> <<>>]

RECURSIVE SumLens(_, _)
SumLens(m, keys) ==
  IF keys = {} THEN 0
  ELSE LET k == CHOOSE x \in keys : TRUE
       IN Len(m[k]) + SumLens(m, keys \ {k})

\* the records held under every key but id
RecordsBeside(id) == SumLens(memoryStores, DOMAIN memoryStores \ {id})

ApiPut(id, embeddings) ==
  /\ RecordsBeside(id) + Len(embeddings) <= MaxRecords
  /\ memoryStores' = storeEmbeddingsInMemory(memoryStores, embeddings,
                        [i \in 1 .. Len(embeddings) |-> <<ChunkNames[i]>>], id)
  /\ api' = [api EXCEPT !.op = "put", !.id = id, !.q = <<>>, !.topK = 0,
                        !.live = @ \cup {id}, !.released = @ \ {id},
                        !.result = NoResult]
  /\ UNCHANGED <<doc, db, rule, chunker>>

ApiSearch(id, q, topK) ==
  /\ api' = [api EXCEPT !.op = "search", !.id = id, !.q = q, !.topK = topK,
                        !.result = searchRelevantChunks(memoryStores, q, id, topK)]
  /\ UNCHANGED <<memoryStores, doc, db, rule, chunker>>

ApiRelease(id) ==
  /\ memoryStores' = releaseStore(memoryStores, id)
  /\ api' = [api EXCEPT !.op = "release", !.id = id, !.q = <<>>, !.topK = 0,
                        !.live = @ \ {id},
                        !.released = IF id \in api.live THEN @ \cup {id} ELSE @,
                        !.result = NoResult]
  /\ UNCHANGED <<doc, db, rule, chunker>>

SeqsUpTo(S, n) == UNION {[1 .. k -> S] : k \in 0 .. n}

StoreNext ==
  \E id \in RequestIds :
    \/ \E e \in SeqsUpTo(Vectors, MaxRecords) : ApiPut(id, e)
    \/ \E q \in QueryVectors : \E k \in 0 .. MaxTopK : ApiSearch(id, q, k)
    \/ ApiRelease(id)

-----------------------------------------------------------------------------
(* The answer gateway (askOllama of both services).                        *)

\* what one call of POST /api/generate can come back with
\*   kind "reject": fetch rejects with err (no HTTP response);
\*   kind "http": a response with a status; json says whether its body parses
\*   as JSON, rtype is the type of the body's response field.
HttpOk(status) == 200 <= status /\ status <= 299

Reject(code) ==
  [kind |-> "reject", err |-> [msg |-> <<"fetch failed">>, code |-> code],
   status |-> 0, json |-> FALSE,
   rtype |-> "missing", text |-> <<>>]

Http(status, json, rtype, text) ==
  [kind |-> "http", err |-> NoError, status |-> status, json |-> json,
   rtype |-> rtype, text |-> text]

GenerateOutcomes ==
  {Reject("ECONNREFUSED"), Reject(""),
   Http(500, FALSE, "missing", <<>>), Http(404, TRUE, "string", <<"o", "k">>),
   Http(200, FALSE, "missing", <<>>), Http(200, TRUE, "missing", <<>>),
   Http(200, TRUE, "string", <<>>), Http(200, TRUE, "number", <<>>)}
  \cup {Http(200, TRUE, "string", t) : t \in {<<"o", "k">>, <<" ", "o", "k", "\n">>, <<" ">>}}

ModelReturned(modelName, status) ==
  Err(<<"Model ", modelName, " returned ", ToString(status)>>)

\* the body of the for loop for one model: [returned, value, lastError]
tryModel(modelName, out) ==
  IF out.kind = "reject"
  THEN [returned |-> FALSE, value |-> <<>>, lastError |-> out.err]
  ELSE IF HttpOk(out.status) /\ ~out.json
  THEN [returned |-> FALSE, value |-> <<>>,
        lastError |-> Err(<<"Unexpected token in JSON">>)]
  ELSE IF HttpOk(out.status) /\ out.rtype = "number"
  THEN [returned |-> FALSE, value |-> <<>>,
        lastError |-> Err(<<"data.response.trim is not a function">>)]
  ELSE IF HttpOk(out.status) /\ out.rtype = "string" /\ out.text # <<>>
  THEN [returned |-> TRUE, value |-> Trim(out.text), lastError |-> NoError]
  ELSE [returned |-> FALSE, value |-> <<>>,
        lastError |-> ModelReturned(modelName, out.status)]

\* throw new Error(`All models failed. Last error: ${lastError?.message}...`)
allModelsFailed(lastError, suffix) ==
  Err(<<"All models failed. Last error: ">> \o lastError.msg \o suffix)

\* the outer catch of askOllama
wrapGatewayError(error) ==
  IF error.code = "ECONNREFUSED"
  THEN Err(<<"Cannot connect to Ollama. Make sure Ollama is running on http://localhost:11434">>)
  ELSE Err(<<"Ollama LLM failed: ">> \o error.msg)

\* askOllama entered: the prompt is built and the first model is about to be called
gatewayStart(question, context) ==
  [status |-> "calling", i |-> 1, lastError |-> NoError, value |-> <<>>,
   err |-> NoError, question |-> question, context |-> context,
   calls |-> <<>>, outcomes |-> <<>>]

GatewayIdle ==
  [status |-> "idle", i |-> 0, lastError |-> NoError, value |-> <<>>,
   err |-> NoError, question |-> <<>>, context |-> <<>>,
   calls |-> <<>>, outcomes |-> <<>>]

\* gatewayStep that goes on to the next model after a success: the last
\* success wins
gatewayStepLastWins(modelNames, suffix, g, out) ==
  LET modelName == modelNames[g.i]
      t == tryModel(modelName, out)
      logged == [g EXCEPT !.calls = Append(@, modelName),
                          !.outcomes = Append(@, out)]
  IN IF g.i < Len(modelNames)
     THEN [logged EXCEPT !.i = @ + 1,
                         !.value = IF t.returned THEN t.value ELSE @,
                         !.lastError = IF t.returned THEN @ ELSE t.lastError]
     ELSE IF t.returned
     THEN [logged EXCEPT !.status = "returned", !.value = t.value]
     ELSE IF g.value # <<>>
     THEN [logged EXCEPT !.status = "returned"]
     ELSE [logged EXCEPT !.status = "threw", !.lastError = t.lastError,
                         !.err = wrapGatewayError(allModelsFailed(t.lastError, suffix))]

\* gatewayStep that gives up at the first model that fails
gatewayStepGiveUp(modelNames, suffix, g, out) ==
  LET modelName == modelNames[g.i]
      t == tryModel(modelName, out)
      logged == [g EXCEPT !.calls = Append(@, modelName),
                          !.outcomes = Append(@, out)]
  IN IF t.returned
     THEN [logged EXCEPT !.status = "returned", !.value = t.value]
     ELSE [logged EXCEPT !.status = "threw", !.lastError = t.lastError,
                         !.err = wrapGatewayError(allModelsFailed(t.lastError, suffix))]

\* gatewayStep that calls the same model again after a failure
gatewayStepSameModel(modelNames, suffix, g, out) ==
  LET modelName == modelNames[g.i]
      t == tryModel(modelName, out)
      logged == [g EXCEPT !.calls = Append(@, modelName),
                          !.outcomes = Append(@, out)]
  IN IF t.returned
     THEN [logged EXCEPT !.status = "returned", !.value = t.value]
     ELSE [logged EXCEPT !.lastError = t.lastError]

\* the call of modelNames[g.i] comes back with out: askOllama runs on to its
\* return, to its throw, or to the call of the next model
gatewayStep(modelNames, suffix, g, out) ==
  LET modelName == modelNames[g.i]
      t == tryModel(modelName, out)
      logged == [g EXCEPT !.calls = Append(@, modelName),
                          !.outcomes = Append(@, out)]
  IN IF t.returned
     THEN [logged EXCEPT !.status = "returned", !.value = t.value]
     ELSE IF g.i < Len(modelNames)
     THEN [logged EXCEPT !.i = @ + 1, !.lastError = t.lastError]
     ELSE [logged EXCEPT !.status = "threw", !.lastError = t.lastError,
                         !.err = wrapGatewayError(allModelsFailed(t.lastError, suffix))]

-----------------------------------------------------------------------------
(* The chunker (AskService.splitTextIntoChunks).                           *)

Max(a, b) == IF a > b THEN a ELSE b

Terminals == {".", "!", "?"}

\* where text.split(/(?<=[.!?])\s+/) finds a separator: a whitespace character
\* that follows sentence-terminal punctuation
SeparatorStarts(text) ==
  {i \in 2 .. Len(text) : text[i] \in Whitespace /\ text[i - 1] \in Terminals}

\* the last position of the whitespace run that starts at i
RunEnd(text, i) ==
  CHOOSE j \in i .. Len(text) :
    /\ \A k \in i .. j : text[k] \in Whitespace
    /\ j = Len(text) \/ text[j + 1] \notin Whitespace

\* the elements of a set of positions, in increasing order
Ascending(ps) ==
  [k \in 1 .. Cardinality(ps) |->
     CHOOSE p \in ps : Cardinality({q \in ps : q <= p}) = k]

\* text.split(/(?<=[.!?])\s+/): the pieces between the separators
SplitSentences(text) ==
  LET starts == Ascending(SeparatorStarts(text))
      n == Len(starts)
  IN [k \in 1 .. n + 1 |->
        SubSeq(text,
               IF k = 1 THEN 1 ELSE RunEnd(text, starts[k - 1]) + 1,
               IF k = n + 1 THEN Len(text) ELSE starts[k] - 1)]

\* s.split(' ')
SplitOnSpace(s) ==
  LET at == Ascending({i \in 1 .. Len(s) : s[i] = " "})
      n == Len(at)
  IN [k \in 1 .. n + 1 |->
        SubSeq(s,
               IF k = 1 THEN 1 ELSE at[k - 1] + 1,
               IF k = n + 1 THEN Len(s) ELSE at[k] - 1)]

RECURSIVE JoinRange(_, _, _, _)
JoinRange(parts, sep, lo, hi) ==
  IF lo > hi THEN <<>>
  ELSE IF lo = hi THEN parts[lo]
  ELSE LET mid == (lo + hi) \div 2
       IN JoinRange(parts, sep, lo, mid) \o sep \o JoinRange(parts, sep, mid + 1, hi)

\* parts.join(sep)
Join(parts, sep) == JoinRange(parts, sep, 1, Len(parts))

\* words.slice(-overlap / 10): the start index -overlap/10 is truncated towards
\* zero, and a start of (minus) zero keeps the whole array
SliceFromEnd(words, overlap) ==
  LET k == overlap \div 10
  IN IF k = 0 THEN words
     ELSE SubSeq(words, Max(Len(words) - k, 0) + 1, Len(words))

\* the for loop over the sentences, from sentence n on: [chunks, current,
\* seeds], seeds[i] being the words kept when chunk i was closed
RECURSIVE chunkLoop(_, _, _, _, _, _, _)
chunkLoop(sentences, n, chunks, seeds, current, chunkSize, overlap) ==
  IF n > Len(sentences)
  THEN [chunks |-> chunks, current |-> current, seeds |-> seeds]
  ELSE
    LET sentence == sentences[n]
        close == Len(current) + Len(sentence) > chunkSize /\ Trim(current) # <<>>
        words == SliceFromEnd(SplitOnSpace(Trim(current)), overlap)
        seeded == Join(words, <<" ">>) \o <<" ">>
    IN IF close
       THEN chunkLoop(sentences, n + 1, Append(chunks, Trim(current)),
                      Append(seeds, words),
                      seeded \o sentence \o <<" ">>, chunkSize, overlap)
       ELSE chunkLoop(sentences, n + 1, chunks, seeds,
                      current \o sentence \o <<" ">>, chunkSize, overlap)

\* candidateChunks without the loop: the trimmed text as one chunk
candidateChunksWhole(text, chunkSize, overlap) ==
  IF Trim(text) # <<>> THEN <<Trim(text)>> ELSE <<>>

\* the chunks before the final filter
candidateChunks(text, chunkSize, overlap) ==
  LET r == chunkLoop(SplitSentences(text), 1, <<>>, <<>>, <<>>, chunkSize, overlap)
  IN IF Trim(r.current) # <<>> THEN Append(r.chunks, Trim(r.current)) ELSE r.chunks

\* the filter keeping chunks of ten characters too
KeepChunkFromTen(chunk) == Len(chunk) >= 10

KeepChunk(chunk) == Len(chunk) > 10

\* splitTextIntoChunks without the final filter
splitTextIntoChunksUnfiltered(text, chunkSize, overlap) ==
  candidateChunks(text, chunkSize, overlap)

\* splitTextIntoChunks(text, chunkSize, overlap)
splitTextIntoChunks(text, chunkSize, overlap) ==
  SelectSeq(candidateChunks(text, chunkSize, overlap), KeepChunk)

DefaultChunkSize == 500

DefaultOverlap == 50

-----------------------------------------------------------------------------
(* Documents of the document path.                                         *)

Sentence ==
  [paris |->
      <<"P", "a", "r", "i", "s", " ", "i", "s", " ", "t", "h", "e", " ", "c", "a", "p", "i", "t",
        "a", "l", " ", "o", "f", " ", "F", "r", "a", "n", "c", "e", " ", "a", "n", "d", " ", "i",
        "t", " ", "l", "i", "e", "s", " ", "o", "n", " ", "t", "h", "e", " ", "r", "i", "v", "e",
        "r", " ", "S", "e", "i", "n", "e", " ", "i", "n", " ", "t", "h", "e", " ", "n", "o", "r",
        "t", "h", " ", "o", "f", " ", "t", "h", "e", " ", "c", "o", "u", "n", "t", "r", "y", ".">>,
   rome |->
      <<"R", "o", "m", "e", " ", "i", "s", " ", "t", "h", "e", " ", "c", "a", "p", "i", "t", "a",
        "l", " ", "o", "f", " ", "I", "t", "a", "l", "y", "!", " ", "I", "t", " ", "w", "a", "s",
        " ", "t", "h", "e", " ", "c", "e", "n", "t", "r", "e", " ", "o", "f", " ", "a", "n", " ",
        "e", "m", "p", "i", "r", "e", " ", "t", "h", "a", "t", " ", "r", "u", "l", "e", "d", " ",
        "t", "h", "e", " ", "M", "e", "d", "i", "t", "e", "r", "r", "a", "n", "e", "a", "n", " ",
        "s", "e", "a", ".">>,
   oslo |->
      <<"I", "s", " ", "O", "s", "l", "o", " ", "t", "h", "e", " ", "c", "a", "p", "i", "t", "a",
        "l", " ", "o", "f", " ", "N", "o", "r", "w", "a", "y", "?", " ", "Y", "e", "s", ",", " ",
        "a", "n", "d", " ", "i", "t", " ", "s", "i", "t", "s", " ", "a", "t", " ", "t", "h", "e",
        " ", "h", "e", "a", "d", " ", "o", "f", " ", "a", " ", "l", "o", "n", "g", " ", "f", "j",
        "o", "r", "d", " ", "i", "n", " ", "t", "h", "e", " ", "s", "o", "u", "t", "h", ".">>,
   lima |->
      <<"L", "i", "m", "a", " ", "i", "s", " ", "t", "h", "e", " ", "c", "a", "p", "i", "t", "a",
        "l", " ", "o", "f", " ", "P", "e", "r", "u", ".", "\n", "I", "t", " ", "w", "a", "s", " ",
        "f", "o", "u", "n", "d", "e", "d", " ", "o", "n", " ", "t", "h", "e", " ", "P", "a", "c",
        "i", "f", "i", "c", " ", "c", "o", "a", "s", "t", " ", "i", "n", " ", "t", "h", "e", " ",
        "s", "i", "x", "t", "e", "e", "n", "t", "h", " ", "c", "e", "n", "t", "u", "r", "y", ".">>]

-----------------------------------------------------------------------------
(* The embedding client (runOllamaEmbedding, getEmbeddingsOllama).         *)

\* what one call of POST /api/embeddings can come back with; etype is the
\* type of the body's embedding field
EmbedReject(code) ==
  [kind |-> "reject", err |-> [msg |-> <<"fetch failed">>, code |-> code],
   status |-> 0, json |-> FALSE,
   etype |-> "missing", vec |-> <<>>]

EmbedHttp(status, json, etype, vec) ==
  [kind |-> "http", err |-> NoError, status |-> status, json |-> json,
   etype |-> etype, vec |-> vec]

\* the vectors the embedding model gives for chunks and for the question:
\* <<6, 2, 1, 3>> has cosine 41/50 = 0.82 with <<5, 4, 3, 0>>, <<0, 0, 0, 1>>
\* is orthogonal to it, <<1>> has another dimension than the rest
EmbedVectors ==
  [chunks |-> {<<6, 2, 1, 3>>, <<0, 0, 0, 1>>, <<1>>},
   question |-> {<<5, 4, 3, 0>>, <<1>>}]

EmbedFailures ==
  {EmbedReject("ECONNREFUSED"), EmbedReject(""),
   EmbedHttp(500, FALSE, "missing", <<>>), EmbedHttp(200, FALSE, "missing", <<>>),
   EmbedHttp(200, TRUE, "missing", <<>>), EmbedHttp(200, TRUE, "string", <<>>)}

EmbedOutcomes(phase) ==
  EmbedFailures \cup {EmbedHttp(200, TRUE, "array", v) : v \in EmbedVectors[phase]}

\* wrapEmbeddingError with one message for every cause
wrapEmbeddingErrorGeneric(error) ==
  Err(<<"Ollama embedding failed">>)

\* the catch of runOllamaEmbedding
wrapEmbeddingError(error) ==
  IF error.code = "ECONNREFUSED"
  THEN Err(<<"Cannot connect to Ollama. Make sure Ollama is running on http://localhost:11434">>)
  ELSE Err(<<"Ollama embedding failed: ">> \o error.msg)

\* runOllamaEmbedding(text) when its call comes back with out: [threw, err, vec]
runOllamaEmbedding(out) ==
  IF out.kind = "reject"
  THEN [threw |-> TRUE, err |-> wrapEmbeddingError(out.err), vec |-> <<>>]
  ELSE IF ~HttpOk(out.status)
  THEN [threw |-> TRUE,
        err |-> wrapEmbeddingError(Err(<<"Ollama API error: ", ToString(out.status)>>)),
        vec |-> <<>>]
  ELSE IF ~out.json
  THEN [threw |-> TRUE, err |-> wrapEmbeddingError(Err(<<"Unexpected token in JSON">>)),
        vec |-> <<>>]
  ELSE IF out.etype # "array"
  THEN [threw |-> TRUE,
        err |-> wrapEmbeddingError(Err(<<"Invalid embedding response from Ollama">>)),
        vec |-> <<>>]
  ELSE [threw |-> FALSE, err |-> NoError, vec |-> out.vec]

\* embedNext with a catch that logs and goes on, leaving a hole in the list
embedNextSwallow(embeddings, out) ==
  LET e == runOllamaEmbedding(out)
  IN [threw |-> FALSE, err |-> NoError, embeddings |-> Append(embeddings, e.vec)]

\* one pass of the loop of getEmbeddingsOllama, the call for the next text
\* coming back with out: [threw, err, embeddings]
embedNext(embeddings, out) ==
  LET e == runOllamaEmbedding(out)
  IN IF e.threw
     THEN [threw |-> TRUE, err |-> e.err, embeddings |-> embeddings]
     ELSE [threw |-> FALSE, err |-> NoError, embeddings |-> Append(embeddings, e.vec)]

-----------------------------------------------------------------------------
(* The document path (AskService.askFromPdf), one process per request.     *)
(* An action runs a request from the return of one external call to the    *)
(* start of the next one, or to the end of the request.                    *)

\* a blank text, a text shorter than a chunk may be, one sentence, and 23
\* sentences in paragraphs (1199 characters)
Docs ==
  LET s == Sentence
      para(a, b, c) == a \o <<" ">> \o b \o <<"\n", "\n">> \o c
  IN {<<" ", "\n", " ">>,
      <<"H", "i", " ", "t", "h", "e", "r", "e", ".">>,
      s.paris,
      para(s.paris, s.rome, s.oslo) \o <<" ">> \o para(s.lima, s.paris, s.rome)
        \o <<" ">> \o para(s.oslo, s.lima, s.rome) \o <<" ">>
        \o para(s.paris, s.oslo, s.lima) \o <<" ">> \o s.rome}

\* this.splitTextIntoChunks(text), with the default chunk size and overlap
ChunksOf == [t \in Docs |-> splitTextIntoChunks(t, DefaultChunkSize, DefaultOverlap)]

DocQuestion ==
  <<"W", "h", "i", "c", "h", " ", "c", "i", "t", "y", "?">>

DocModelNames == <<"gemma3:1b">>

DocSuffix == <<". Available models: gemma3:1b">>

DocTopK == 3

NoRelevantAnswer ==
  <<"I cannot find relevant information in the provided PDF to answer this question.">>

DocIdle ==
  [pc |-> "idle", question |-> <<>>, chunks |-> <<>>, embeddings |-> <<>>,
   questionEmbedding |-> <<>>, relevantChunks |-> <<>>, gw |-> GatewayIdle,
   status |-> "pending", answer |-> <<>>, err |-> NoError,
   embedCalls |-> <<>>, puts |-> 0, searches |-> 0, searchThrew |-> FALSE,
   top |-> [n |-> 0, score |-> ZeroScore], noChunks |-> FALSE]

InFlight(r) == doc[r].pc \notin {"idle", "done"}

\* what is left of a request once askFromPdf has returned or thrown: its
\* locals are gone, its outcome and the history of its calls remain
finished(d) ==
  [DocIdle EXCEPT !.pc = "done", !.embedCalls = d.embedCalls, !.puts = d.puts,
                  !.searches = d.searches, !.searchThrew = d.searchThrew,
                  !.top = d.top, !.noChunks = d.noChunks,
                  !.gw = [d.gw EXCEPT !.question = <<>>, !.context = <<>>]]

\* return value of askFromPdf, after the finally block
docReturn(r, d, answer) ==
  /\ doc' = [doc EXCEPT ![r] = [finished(d) EXCEPT !.status = "answer",
                                                   !.answer = answer]]
  /\ memoryStores' = releaseStore(memoryStores, r)

\* docThrow without the finally block
docThrowNoCleanup(r, d, error) ==
  /\ doc' = [doc EXCEPT ![r] = [finished(d) EXCEPT !.status = "error",
                                                   !.err = error]]
  /\ UNCHANGED memoryStores

\* askFromPdf's catch rethrows, after the finally block
docThrow(r, d, error) ==
  /\ doc' = [doc EXCEPT ![r] = [finished(d) EXCEPT !.status = "error",
                                                   !.err = error]]
  /\ memoryStores' = releaseStore(memoryStores, r)

\* askFromPdf is called: the request id is made and text extraction starts
DocStart(r, question) ==
  /\ doc[r].pc = "idle"
  /\ doc' = [doc EXCEPT ![r] = [@ EXCEPT !.pc = "extract", !.question = question]]
  /\ UNCHANGED <<memoryStores, api, db, rule, chunker>>

\* extractTextFromPdf fails: no file, pdf-parse throws, or no text
DocExtractFail(r, cause) ==
  /\ doc[r].pc = "extract"
  /\ docThrow(r, doc[r], Err(<<"Failed to extract text from PDF: ", cause>>))
  /\ UNCHANGED <<api, db, rule, chunker>>

\* DocExtract without the test of chunks.length: getEmbeddingsOllama makes
\* no call for an empty list and an empty array is stored
DocExtractUnchecked(r, text) ==
  /\ doc[r].pc = "extract"
  /\ IF Trim(text) = <<>>
     THEN docThrow(r, doc[r],
                   Err(<<"Failed to extract text from PDF: ", "No text found in PDF">>))
     ELSE LET chunks == ChunksOf[text]
          IN IF Len(chunks) = 0
             THEN /\ doc' = [doc EXCEPT ![r] = [@ EXCEPT !.pc = "embedQuestion",
                                                         !.noChunks = TRUE,
                                                         !.puts = @ + 1]]
                  /\ memoryStores' =
                       storeEmbeddingsInMemory(memoryStores, <<>>, <<>>, r)
             ELSE /\ doc' = [doc EXCEPT ![r] = [@ EXCEPT !.pc = "embedChunks",
                                                         !.chunks = chunks]]
                  /\ UNCHANGED memoryStores
  /\ UNCHANGED <<api, db, rule, chunker>>

\* extractTextFromPdf returns text: chunking, then the first embedding call
DocExtract(r, text) ==
  /\ doc[r].pc = "extract"
  /\ IF Trim(text) = <<>>
     THEN docThrow(r, doc[r],
                   Err(<<"Failed to extract text from PDF: ", "No text found in PDF">>))
     ELSE LET chunks == ChunksOf[text]
          IN IF Len(chunks) = 0
             THEN docThrow(r, [doc[r] EXCEPT !.noChunks = TRUE],
                           Err(<<"No valid text chunks found in PDF">>))
             ELSE /\ doc' = [doc EXCEPT ![r] = [@ EXCEPT !.pc = "embedChunks",
                                                         !.chunks = chunks]]
                  /\ UNCHANGED memoryStores
  /\ UNCHANGED <<api, db, rule, chunker>>

\* the embedding call for chunk Len(embeddings) + 1 comes back
DocEmbedChunk(r, out) ==
  /\ doc[r].pc = "embedChunks"
  /\ LET d == doc[r]
         i == Len(d.embeddings) + 1
         e == embedNext(d.embeddings, out)
         called == [d EXCEPT !.embedCalls =
                       Append(@, [phase |-> "chunks", index |-> i,
                                  ok |-> runOllamaEmbedding(out).threw = FALSE,
                                  failure |-> IF runOllamaEmbedding(out).threw
                                              THEN <<out>> ELSE <<>>])]
         embeddings == e.embeddings
     IN IF e.threw
        THEN docThrow(r, called, e.err)
        ELSE IF i < Len(d.chunks)
        THEN /\ doc' = [doc EXCEPT ![r] = [called EXCEPT !.embeddings = embeddings]]
             /\ UNCHANGED memoryStores
        ELSE /\ doc' = [doc EXCEPT ![r] = [called EXCEPT !.embeddings = embeddings,
                                                          !.pc = "embedQuestion",
                                                          !.puts = @ + 1]]
             /\ memoryStores' =
                  storeEmbeddingsInMemory(memoryStores, embeddings, d.chunks, r)
  /\ UNCHANGED <<api, db, rule, chunker>>

\* the embedding call for the question comes back: search, then either the
\* sentinel answer or the first generation call
DocEmbedQuestion(r, out) ==
  /\ doc[r].pc = "embedQuestion"
  /\ LET d == doc[r]
         e == embedNext(<<>>, out)
         called == [d EXCEPT !.embedCalls =
                       Append(@, [phase |-> "question", index |-> 1,
                                  ok |-> runOllamaEmbedding(out).threw = FALSE,
                                  failure |-> IF runOllamaEmbedding(out).threw
                                              THEN <<out>> ELSE <<>>])]
         found == searchRelevantChunks(memoryStores, e.embeddings[1], r, DocTopK)
         searched == [called EXCEPT !.searches = @ + 1,
                                    !.searchThrew = found.threw,
                                    !.top = [n |-> Len(found.chunks),
                                             score |-> IF found.chunks = <<>>
                                                       THEN ZeroScore
                                                       ELSE found.chunks[1].score],
                                    !.questionEmbedding = e.embeddings[1],
                                    !.relevantChunks = found.chunks]
         context == Join([i \in 1 .. Len(found.chunks) |-> found.chunks[i].text],
                         <<"\n", "\n">>)
     IN IF e.threw
        THEN docThrow(r, called, e.err)
        ELSE IF found.threw
        THEN docThrow(r, searched, found.err)
        ELSE IF Len(found.chunks) = 0 \/ BelowThreshold(found.chunks[1].score)
        THEN docReturn(r, searched, NoRelevantAnswer)
        ELSE /\ doc' = [doc EXCEPT ![r] =
                          [searched EXCEPT !.pc = "generate",
                                           !.gw = gatewayStart(d.question, context)]]
             /\ UNCHANGED memoryStores
  /\ UNCHANGED <<api, db, rule, chunker>>

\* a generation call comes back
DocGenerate(r, out) ==
  /\ doc[r].pc = "generate"
  /\ LET d == doc[r]
         g == gatewayStep(DocModelNames, DocSuffix, d.gw, out)
         stepped == [d EXCEPT !.gw = g]
     IN IF g.status = "returned" THEN docReturn(r, stepped, g.value)
        ELSE IF g.status = "threw" THEN docThrow(r, stepped, g.err)
        ELSE /\ doc' = [doc EXCEPT ![r] = stepped]
             /\ UNCHANGED memoryStores
  /\ UNCHANGED <<api, db, rule, chunker>>

DocNext ==
  \E r \in RequestIds :
    \/ DocStart(r, DocQuestion)
    \/ \E c \in {"PDF file not found", "Invalid PDF structure"} : DocExtractFail(r, c)
    \/ \E t \in Docs : DocExtract(r, t)
    \/ \E out \in EmbedOutcomes("chunks") : DocEmbedChunk(r, out)
    \/ \E out \in EmbedOutcomes("question") : DocEmbedQuestion(r, out)
    \/ \E out \in GenerateOutcomes : DocGenerate(r, out)

-----------------------------------------------------------------------------
(* The dataset path (DatabaseQueryService).  A question, like every text,  *)
(* is a sequence of characters.                                             *)
\* the letters toUpperCase and toLowerCase map to each other
Letters ==
  [upper |->
  <<"A", "B", "C", "D", "E", "F", "G", "H", "I", "J", "K", "L", "M",
    "N", "O", "P", "Q", "R", "S", "T", "U", "V", "W", "X", "Y", "Z">>,
   lower |->
  <<"a", "b", "c", "d", "e", "f", "g", "h", "i", "j", "k", "l", "m",
    "n", "o", "p", "q", "r", "s", "t", "u", "v", "w", "x", "y", "z">>]

\* String.prototype.toLowerCase / toUpperCase, of one character and of a text
toLowerChar(c) ==
  IF \E i \in 1 .. 26 : Letters.upper[i] = c
  THEN Letters.lower[CHOOSE i \in 1 .. 26 : Letters.upper[i] = c]
  ELSE c

toUpperChar(c) ==
  IF \E i \in 1 .. 26 : Letters.lower[i] = c
  THEN Letters.upper[CHOOSE i \in 1 .. 26 : Letters.lower[i] = c]
  ELSE c

toLowerCase(s) == [i \in 1 .. Len(s) |-> toLowerChar(s[i])]

\* String.prototype.includes
includes(s, sub) ==
  \E i \in 1 .. Len(s) - Len(sub) + 1 : SubSeq(s, i, i + Len(sub) - 1) = sub

\* the words the rule tier looks for
Keyword ==
  [team |->
      <<"t", "e", "a", "m">>,
   match |->
      <<"m", "a", "t", "c", "h">>,
   game |->
      <<"g", "a", "m", "e">>,
   upcoming |->
      <<"u", "p", "c", "o", "m", "i", "n", "g">>,
   next |->
      <<"n", "e", "x", "t">>,
   future |->
      <<"f", "u", "t", "u", "r", "e">>,
   competition |->
      <<"c", "o", "m", "p", "e", "t", "i", "t", "i", "o", "n">>,
   league |->
      <<"l", "e", "a", "g", "u", "e">>,
   tournament |->
      <<"t", "o", "u", "r", "n", "a", "m", "e", "n", "t">>,
   howMany |->
      <<"h", "o", "w", " ", "m", "a", "n", "y">>,
   count |->
      <<"c", "o", "u", "n", "t">>,
   total |->
      <<"t", "o", "t", "a", "l">>]

\* competitionKeywords
competitionKeywords ==
  <<<<"p", "r", "e", "m", "i", "e", "r", " ", "l", "e", "a", "g", "u", "e">>,
    <<"c", "h", "a", "m", "p", "i", "o", "n", "s", " ", "l", "e", "a", "g",
      "u", "e">>,
    <<"e", "u", "r", "o", "p", "a", " ", "l", "e", "a", "g", "u", "e">>,
    <<"w", "o", "r", "l", "d", " ", "c", "u", "p">>,
    <<"e", "u", "r", "o">>,
    <<"c", "o", "p", "a">>>>

\* questions put to the dataset path
Question ==
  [teamsCount |->
      <<"H", "o", "w", " ", "m", "a", "n", "y", " ", "t", "e", "a", "m", "s",
        " ", "a", "r", "e", " ", "i", "n", " ", "t", "h", "e", " ", "d", "a",
        "t", "a", "b", "a", "s", "e", "?">>,
   teamMatches |->
      <<"S", "h", "o", "w", " ", "A", "r", "s", "e", "n", "a", "l", " ", "t",
        "e", "a", "m", " ", "m", "a", "t", "c", "h", "e", "s">>,
   nextGame |->
      <<"w", "h", "a", "t", " ", "i", "s", " ", "t", "h", "e", " ", "n", "e",
        "x", "t", " ", "g", "a", "m", "e">>,
   premierLeague |->
      <<"P", "r", "e", "m", "i", "e", "r", " ", "L", "e", "a", "g", "u", "e",
        " ", "f", "i", "x", "t", "u", "r", "e", "s">>,
   tournament |->
      <<"w", "h", "i", "c", "h", " ", "t", "o", "u", "r", "n", "a", "m", "e",
        "n", "t">>,
   general |->
      <<"T", "e", "l", "l", " ", "m", "e", " ", "s", "o", "m", "e", "t", "h",
        "i", "n", "g">>]

Questions == {Question[k] : k \in DOMAIN Question}

\* a property that may be missing: <<>> is undefined (or null), <<v>> is v
Absent == <<>>

Some(v) == <<v>>

\* a value JSON.parse can return: null, or an object, which is
\* the properties the service reads and whether each is there
JsonNull ==
  [kind |-> "null", queryType |-> Absent, entities |-> Absent,
   parameters |-> Absent, confidence |-> Absent, primaryQuery |-> Absent,
   additionalQueries |-> Absent, limit |-> Absent]

JsonObject == [JsonNull EXCEPT !.kind = "object"]

\* the parameters object {}: teamNames, competitionNames, dateRange
NoParameters ==
  [teamNames |-> Absent, competitionNames |-> Absent, dateRange |-> Absent]

\* { queryType, entities, parameters, confidence }; confidence in hundredths
Analysis(queryType, entities, parameters, confidence) ==
  [JsonObject EXCEPT !.queryType = Some(queryType),
                     !.entities = Some(entities),
                     !.parameters = Some(parameters),
                     !.confidence = Some(confidence)]

extractTeamNames(question) ==
  LET words == SplitOnSpace(question)
  IN SelectSeq(words, LAMBDA word :
                        Len(word) > 2 /\ word[1] = toUpperChar(word[1]))

extractCompetitionNames(question) ==
  LET lowerQuestion == toLowerCase(question)
  IN SelectSeq(competitionKeywords,
               LAMBDA keyword : includes(lowerQuestion, keyword))

\* the rule tier without the count keyword total
analyzeQuestionNoTotal(question) ==
  LET lowerQuestion == toLowerCase(question)
      has(kw) == includes(lowerQuestion, kw)
  IN IF has(Keyword.team) /\ (has(Keyword.match) \/ has(Keyword.game))
     THEN Analysis("team_matches", <<"teams", "matches">>,
                   [NoParameters EXCEPT
                      !.teamNames = Some(extractTeamNames(question))], 70)
     ELSE IF has(Keyword.upcoming) \/ has(Keyword.next) \/ has(Keyword.future)
     THEN Analysis("upcoming_matches", <<"matches">>, NoParameters, 80)
     ELSE IF has(Keyword.competition) \/ has(Keyword.league) \/ has(Keyword.tournament)
     THEN Analysis("competition_matches", <<"matches">>,
                   [NoParameters EXCEPT
                      !.competitionNames =
                         Some(extractCompetitionNames(question))], 70)
     ELSE IF (has(Keyword.howMany) \/ has(Keyword.count)) /\ has(Keyword.team)
     THEN Analysis("teams_count", <<"teams">>, NoParameters, 90)
     ELSE IF (has(Keyword.howMany) \/ has(Keyword.count))
             /\ (has(Keyword.match) \/ has(Keyword.game))
     THEN Analysis("matches_count", <<"matches">>, NoParameters, 90)
     ELSE Analysis("general", <<"teams", "matches">>, NoParameters, 50)

\* the rule tier with the confidence 0.5 for the upcoming rule
analyzeQuestionUpcomingHalf(question) ==
  LET lowerQuestion == toLowerCase(question)
      has(kw) == includes(lowerQuestion, kw)
  IN IF has(Keyword.team) /\ (has(Keyword.match) \/ has(Keyword.game))
     THEN Analysis("team_matches", <<"teams", "matches">>,
                   [NoParameters EXCEPT
                      !.teamNames = Some(extractTeamNames(question))], 70)
     ELSE IF has(Keyword.upcoming) \/ has(Keyword.next) \/ has(Keyword.future)
     THEN Analysis("upcoming_matches", <<"matches">>, NoParameters, 50)
     ELSE IF has(Keyword.competition) \/ has(Keyword.league) \/ has(Keyword.tournament)
     THEN Analysis("competition_matches", <<"matches">>,
                   [NoParameters EXCEPT
                      !.competitionNames =
                         Some(extractCompetitionNames(question))], 70)
     ELSE IF (has(Keyword.howMany) \/ has(Keyword.count) \/ has(Keyword.total)) /\ has(Keyword.team)
     THEN Analysis("teams_count", <<"teams">>, NoParameters, 90)
     ELSE IF (has(Keyword.howMany) \/ has(Keyword.count) \/ has(Keyword.total))
             /\ (has(Keyword.match) \/ has(Keyword.game))
     THEN Analysis("matches_count", <<"matches">>, NoParameters, 90)
     ELSE Analysis("general", <<"teams", "matches">>, NoParameters, 50)

\* the rule tier
analyzeQuestion(question) ==
  LET lowerQuestion == toLowerCase(question)
      has(kw) == includes(lowerQuestion, kw)
  IN IF has(Keyword.team) /\ (has(Keyword.match) \/ has(Keyword.game))
     THEN Analysis("team_matches", <<"teams", "matches">>,
                   [NoParameters EXCEPT
                      !.teamNames = Some(extractTeamNames(question))], 70)
     ELSE IF has(Keyword.upcoming) \/ has(Keyword.next) \/ has(Keyword.future)
     THEN Analysis("upcoming_matches", <<"matches">>, NoParameters, 80)
     ELSE IF has(Keyword.competition) \/ has(Keyword.league) \/ has(Keyword.tournament)
     THEN Analysis("competition_matches", <<"matches">>,
                   [NoParameters EXCEPT
                      !.competitionNames =
                         Some(extractCompetitionNames(question))], 70)
     ELSE IF (has(Keyword.howMany) \/ has(Keyword.count) \/ has(Keyword.total)) /\ has(Keyword.team)
     THEN Analysis("teams_count", <<"teams">>, NoParameters, 90)
     ELSE IF (has(Keyword.howMany) \/ has(Keyword.count) \/ has(Keyword.total))
             /\ (has(Keyword.match) \/ has(Keyword.game))
     THEN Analysis("matches_count", <<"matches">>, NoParameters, 90)
     ELSE Analysis("general", <<"teams", "matches">>, NoParameters, 50)

-----------------------------------------------------------------------------
(* The data source: the teams and matches tables, and the queries on them.  *)
(* matchTime is a day number; Today is the day of `new Date()`.             *)
Team(name, image) == [name |-> name, image |-> image]

Match(home, away, matchTime, competitionName) ==
  [homeTeamName |-> home, awayTeamName |-> away, matchTime |-> matchTime,
   competitionName |-> competitionName]

Today == 10

EmptyData == [teams |-> <<>>, matches |-> <<>>]

SampleData ==
  LET arsenal == <<"A", "r", "s", "e", "n", "a", "l">>
      chelsea == <<"C", "h", "e", "l", "s", "e", "a">>
      cup == <<"F", "A", " ", "C", "u", "p">>
  IN [teams |-> <<Team(arsenal, <<>>), Team(chelsea, <<"c.png">>)>>,
      matches |-> <<Match(arsenal, chelsea, Some(12), Some(cup)),
                    Match(chelsea, arsenal, Some(5), Absent),
                    Match(chelsea, chelsea, Some(20), Absent)>>]

\* 51 teams, one more than a full listing is to return
LargeData ==
  [teams |-> [i \in 1 .. 51 |-> Team(<<"T", "e", "a", "m", " ", ToString(i)>>, <<>>)],
   matches |-> <<>>]

Datasets == {EmptyData, SampleData, LargeData}

\* ILike(`%${pattern}%`)
ILike(value, pattern) == includes(toLowerCase(value), toLowerCase(pattern))

\* ORDER BY match.matchTime, of rows that have one
RECURSIVE OrderByTime(_, _)
OrderByTime(ms, asc) ==
  IF ms = <<>> THEN <<>>
  ELSE LET before(a, b) == IF asc THEN a.matchTime[1] < b.matchTime[1]
                                  ELSE a.matchTime[1] > b.matchTime[1]
           first == CHOOSE i \in 1 .. Len(ms) :
                      \A j \in 1 .. Len(ms) :
                        ~before(ms[j], ms[i]) /\ (j < i => before(ms[i], ms[j]))
       IN <<ms[first]>> \o
          OrderByTime(SubSeq(ms, 1, first - 1) \o SubSeq(ms, first + 1, Len(ms)),
                      asc)

getAllTeams(ds) == ds.teams

getAllMatches(ds) == ds.matches

\* findOne: the first row that matches, or null
getTeamByName(ds, name) ==
  LET found == SelectSeq(ds.teams, LAMBDA t : ILike(t.name, name))
  IN IF found = <<>> THEN Absent ELSE Some(found[1])

getMatchesByTeam(ds, teamName) ==
  SelectSeq(ds.matches, LAMBDA m : \/ ILike(m.homeTeamName, teamName)
                                   \/ ILike(m.awayTeamName, teamName))

getMatchesByCompetition(ds, competitionName) ==
  SelectSeq(ds.matches,
            LAMBDA m : /\ m.competitionName # Absent
                       /\ ILike(m.competitionName[1], competitionName))

getUpcomingMatches(ds) ==
  OrderByTime(SelectSeq(ds.matches,
                        LAMBDA m : m.matchTime # Absent /\ m.matchTime[1] > Today),
              TRUE)

getPastMatches(ds) ==
  SliceTo(OrderByTime(SelectSeq(ds.matches,
                                LAMBDA m : /\ m.matchTime # Absent
                                           /\ m.matchTime[1] < Today),
                      FALSE),
          50)

getTeamsCount(ds) == Len(ds.teams)

getMatchesCount(ds) == Len(ds.matches)

\* startDate, endDate: a day, or Absent (undefined)
getMatchesByDateRange(ds, startDate, endDate) ==
  IF startDate = Absent \/ endDate = Absent THEN <<>>
  ELSE OrderByTime(SelectSeq(ds.matches,
                             LAMBDA m : /\ m.matchTime # Absent
                                        /\ startDate[1] <= m.matchTime[1]
                                        /\ m.matchTime[1] <= endDate[1]),
                   TRUE)

\* a query of the data source fails
QueryFailed == Err(<<"QueryFailedError: connection terminated">>)

\* the data of a bundle: null, a number n, an array of items, or an object
\* with some of the properties teams, matches, teamDetails
NullData ==
  [kind |-> "null", n |-> 0, items |-> <<>>, teams |-> Absent,
   matches |-> Absent, teamDetails |-> Absent]

NumberData(n) == [NullData EXCEPT !.kind = "number", !.n = n]

ArrayData(items) == [NullData EXCEPT !.kind = "array", !.items = items]

ObjectData(teams, matches) ==
  [NullData EXCEPT !.kind = "object", !.teams = teams, !.matches = matches]

Bundle(type, data) == [type |-> type, data |-> data]

\* what a fetch comes to: it threw err, or it returned value; queried says
\* whether it called the data source
Threw(err, queried) ==
  [threw |-> TRUE, err |-> err, value |-> Bundle("", NullData),
   queried |-> queried]

Returned(value, queried) ==
  [threw |-> FALSE, err |-> NoError, value |-> value, queried |-> queried]

CannotRead(property) ==
  Err(<<"Cannot read properties of undefined (reading '", property, "')">>)

\* Array.prototype.flat
RECURSIVE Flat(_)
Flat(ss) == IF ss = <<>> THEN <<>> ELSE Head(ss) \o Flat(Tail(ss))

\* fetchRelevantData(queryType, parameters) on data source ds; ok says
\* whether the queries it makes succeed
fetchRelevantData(queryType, parameters, ds, ok) ==
  LET query(value) == IF ok THEN Returned(value, TRUE)
                            ELSE Threw(QueryFailed, TRUE)
      noData == Returned(Bundle("no_data", NullData), FALSE)
      type == IF queryType = Absent THEN "undefined" ELSE queryType[1]
      p == parameters[1]
  IN CASE type = "team_matches" ->
            IF parameters = Absent THEN Threw(CannotRead("teamNames"), FALSE)
            ELSE IF p.teamNames # Absent /\ Len(p.teamNames[1]) > 0
            THEN query(Bundle("team_matches",
                   ArrayData([i \in 1 .. Len(p.teamNames[1]) |->
                     [team |-> getTeamByName(ds, p.teamNames[1][i]),
                      matches |-> getMatchesByTeam(ds, p.teamNames[1][i])]])))
            ELSE noData
       [] type = "upcoming_matches" ->
            query(Bundle("upcoming_matches", ArrayData(getUpcomingMatches(ds))))
       [] type = "past_matches" ->
            query(Bundle("past_matches", ArrayData(getPastMatches(ds))))
       [] type = "competition_matches" ->
            IF parameters = Absent
            THEN Threw(CannotRead("competitionNames"), FALSE)
            ELSE IF p.competitionNames # Absent /\ Len(p.competitionNames[1]) > 0
            THEN query(Bundle("competition_matches",
                   ArrayData(Flat([i \in 1 .. Len(p.competitionNames[1]) |->
                     getMatchesByCompetition(ds, p.competitionNames[1][i])]))))
            ELSE noData
       [] type = "date_range_matches" ->
            IF parameters = Absent THEN Threw(CannotRead("dateRange"), FALSE)
            ELSE IF p.dateRange # Absent
            THEN query(Bundle("date_range_matches",
                   ArrayData(getMatchesByDateRange(ds, p.dateRange[1].start,
                                                   p.dateRange[1].end))))
            ELSE noData
       [] type = "teams_count" ->
            query(Bundle("teams_count", NumberData(getTeamsCount(ds))))
       [] type = "matches_count" ->
            query(Bundle("matches_count", NumberData(getMatchesCount(ds))))
       [] type = "all_teams" ->
            query(Bundle("all_teams", ArrayData(getAllTeams(ds))))
       [] type = "all_matches" ->
            query(Bundle("all_matches", ArrayData(SliceTo(getAllMatches(ds), 50))))
       [] OTHER ->
            query(Bundle("general",
                   ObjectData(Some(SliceTo(getAllTeams(ds), 10)),
                              Some(SliceTo(getAllMatches(ds), 20)))))

\* executeDataStrategy(strategy, parameters)
executeDataStrategy(strategy, parameters, ds, ok) ==
  IF strategy.kind = "null" THEN Threw(CannotRead("primaryQuery"), FALSE)
  ELSE IF ~ok THEN Threw(QueryFailed, TRUE)
  ELSE
    LET primaryQuery == IF strategy.primaryQuery = Absent THEN "undefined"
                        ELSE strategy.primaryQuery[1]
        limit == IF strategy.limit = Absent \/ strategy.limit[1] = 0 THEN 20
                 ELSE strategy.limit[1]
        primary ==
          CASE primaryQuery = "getAllTeams" ->
                 ObjectData(Some(getAllTeams(ds)), Absent)
            [] primaryQuery = "getAllMatches" ->
                 ObjectData(Absent, Some(SliceTo(getAllMatches(ds), limit)))
            [] primaryQuery = "getUpcomingMatches" ->
                 ObjectData(Absent, Some(getUpcomingMatches(ds)))
            [] primaryQuery = "getPastMatches" ->
                 ObjectData(Absent, Some(getPastMatches(ds)))
            [] OTHER ->
                 ObjectData(Absent, Some(SliceTo(getAllMatches(ds), 10)))
        queries == IF strategy.additionalQueries = Absent THEN <<>>
                   ELSE strategy.additionalQueries[1]
        wantsTeams == \E i \in 1 .. Len(queries) : queries[i] = "getTeamByName"
    IN IF ~wantsTeams THEN Returned(Bundle("ai_strategy", primary), TRUE)
       ELSE IF parameters = Absent THEN Threw(CannotRead("teamNames"), TRUE)
       ELSE IF parameters[1].teamNames = Absent
       THEN Returned(Bundle("ai_strategy", primary), TRUE)
       ELSE Returned(Bundle("ai_strategy",
              [primary EXCEPT
                 !.teamDetails =
                    Some([i \in 1 .. Len(parameters[1].teamNames[1]) |->
                           getTeamByName(ds, parameters[1].teamNames[1][i])])]),
              TRUE)

\* a context is the sequence of the pieces of text appended to it
NoRelevantData == <<"No relevant data found in the database.">>

teamLine(team) == <<"- ">> \o team.name \o <<"\n">>

matchLine(match, withTime) ==
  <<"- ">> \o match.homeTeamName \o <<" vs ">> \o match.awayTeamName
  \o (IF withTime /\ match.matchTime # Absent
      THEN <<" on ", ToString(match.matchTime[1])>> ELSE <<>>)
  \o (IF match.competitionName # Absent /\ match.competitionName[1] # <<>>
      THEN <<" (">> \o match.competitionName[1] \o <<")">> ELSE <<>>)
  \o <<"\n">>

teamDetailLine(team) ==
  IF team = Absent THEN <<>>
  ELSE <<"- ">> \o team[1].name
       \o (IF team[1].image # <<>>
           THEN <<" (Image: ">> \o team[1].image \o <<")">> ELSE <<>>)
       \o <<"\n">>

formatDataForContext(fetchedData) ==
  LET data == fetchedData.data
      teamLines(ts) == Flat([i \in 1 .. Len(ts) |-> teamLine(ts[i])])
      matchLines(ms, withTime) ==
        Flat([i \in 1 .. Len(ms) |-> matchLine(ms[i], withTime)])
      teamDetailLines(ts) == Flat([i \in 1 .. Len(ts) |-> teamDetailLine(ts[i])])
  IN IF data.kind = "null" \/ (data.kind = "number" /\ data.n = 0)
     THEN NoRelevantData
     ELSE
       CASE fetchedData.type = "ai_strategy" ->
              (IF data.teams # Absent
               THEN <<"Teams:\n">>
                    \o teamLines(SliceTo(data.teams[1], 20))
                    \o <<"\n">>
               ELSE <<>>)
              \o (IF data.matches # Absent
                  THEN <<"Matches:\n">>
                       \o matchLines(SliceTo(data.matches[1], 30), TRUE)
                  ELSE <<>>)
              \o (IF data.teamDetails # Absent
                  THEN <<"\nTeam Details:\n">>
                       \o teamDetailLines(data.teamDetails[1])
                  ELSE <<>>)
         [] fetchedData.type = "past_matches" ->
              <<"Recent Past Matches:\n">>
              \o matchLines(data.items, TRUE)
         [] fetchedData.type = "date_range_matches" ->
              <<"Matches in Date Range:\n">>
              \o matchLines(data.items, TRUE)
         [] OTHER ->
              (IF data.teams # Absent
               THEN <<"Teams:\n">> \o teamLines(data.teams[1])
               ELSE <<>>)
              \o (IF data.matches # Absent
                  THEN <<"Matches:\n">>
                       \o matchLines(data.matches[1], FALSE)
                  ELSE <<>>)

-----------------------------------------------------------------------------
(* What the model writes.  A model text is a sequence of pieces: a code     *)
(* fence, white space, a run of prose, or the text of one JSON value.       *)
\* <fence> stands for the three backquotes of a code fence; the fences the
\* classifier removes are the bare one and the one tagged json, in either case
Fences == {"<fence>", "<fence>json", "<fence>JSON"}

Prose == "Here is the analysis:"

\* the JSON values the model writes: their text and what JSON.parse makes of it
Json ==
  [teamsCount |->
     [text |-> "{\"queryType\":\"teams_count\",\"entities\":[\"teams\"],\"parameters\":{},\"confidence\":0.9}",
      value |-> Analysis("teams_count", <<"teams">>, NoParameters, 90)],
   pastMatches |->
     [text |-> "{\"queryType\":\"past_matches\",\"entities\":[\"matches\"],\"parameters\":{},\"confidence\":0.95}",
      value |-> Analysis("past_matches", <<"matches">>, NoParameters, 95)],
   general |->
     [text |-> "{\"queryType\":\"general\",\"entities\":[\"teams\",\"matches\"],\"parameters\":{},\"confidence\":0.5}",
      value |-> Analysis("general", <<"teams", "matches">>, NoParameters, 50)],
   teamMatches |->
     [text |-> "{\"queryType\":\"team_matches\",\"entities\":[\"teams\"],\"parameters\":{\"teamNames\":[\"Arsenal\"]},\"confidence\":0.6}",
      value |-> Analysis("team_matches", <<"teams">>,
                         [NoParameters EXCEPT
                            !.teamNames = Some(<<SampleData.teams[1].name>>)],
                         60)],
   noParameters |->
     [text |-> "{\"queryType\":\"team_matches\",\"confidence\":0.1}",
      value |-> [JsonObject EXCEPT !.queryType = Some("team_matches"),
                                   !.confidence = Some(10)]],
   null |-> [text |-> "null", value |-> JsonNull],
   planTeams |->
     [text |-> "{\"primaryQuery\":\"getAllTeams\"}",
      value |-> [JsonObject EXCEPT !.primaryQuery = Some("getAllTeams")]],
   planDetails |->
     [text |-> "{\"primaryQuery\":\"getAllMatches\",\"additionalQueries\":[\"getTeamByName\"],\"limit\":50}",
      value |-> [JsonObject EXCEPT
                   !.primaryQuery = Some("getAllMatches"),
                   !.additionalQueries = Some(<<"getTeamByName">>),
                   !.limit = Some(50)]]]

\* JSON.parse: white space around the value is allowed, nothing else is
JSONparse(text) ==
  LET pieces == SelectSeq(text, LAMBDA piece : piece \notin Whitespace)
  IN IF Len(pieces) = 1 /\ \E k \in DOMAIN Json : Json[k].text = pieces[1]
     THEN [ok |-> TRUE,
           value |-> Json[CHOOSE k \in DOMAIN Json : Json[k].text = pieces[1]].value]
     ELSE [ok |-> FALSE, value |-> JsonNull]

\* the response with its code fences, with or without the json tag in either
\* case, replaced by nothing, then trimmed
cleanResponse(response) ==
  Trim(SelectSeq(response,
                 LAMBDA piece : piece \notin Fences))

ClassifyTexts ==
  {<<Json.teamsCount.text>>, <<Json.pastMatches.text>>,
   <<"<fence>json", "\n", Json.general.text, "\n", "<fence>">>,
   <<"<fence>JSON", Json.teamMatches.text, "<fence>", "\n">>,
   <<Json.noParameters.text>>, <<Json.null.text>>,
   <<Prose, "\n", Json.teamsCount.text>>, <<>>}

PlanTexts ==
  {<<Json.planTeams.text>>, <<" ", Json.planDetails.text, "\n">>,
   <<"<fence>json", "\n", Json.planTeams.text, "\n", "<fence>">>,
   <<Prose>>, <<Json.null.text>>}

\* what a call of callOllama can come back with
CallFailures ==
  {Reject("ECONNREFUSED"), Http(500, FALSE, "missing", <<>>),
   Http(200, TRUE, "missing", <<>>)}

ClassifyOutcomes ==
  CallFailures \cup {Http(200, TRUE, "string", t) : t \in ClassifyTexts}

PlanOutcomes ==
  CallFailures \cup {Http(200, TRUE, "string", t) : t \in PlanTexts}

\* callOllama: [threw, err, text]
callOllama(out) ==
  IF out.kind = "reject" THEN [threw |-> TRUE, err |-> out.err, text |-> <<>>]
  ELSE IF ~HttpOk(out.status)
  THEN [threw |-> TRUE, text |-> <<>>,
        err |-> Err(<<"Ollama request failed: ", ToString(out.status)>>)]
  ELSE IF ~out.json
  THEN [threw |-> TRUE, text |-> <<>>, err |-> Err(<<"Unexpected token in JSON">>)]
  ELSE IF out.rtype = "missing"
  THEN [threw |-> TRUE, text |-> <<>>, err |-> CannotRead("trim")]
  ELSE IF out.rtype # "string"
  THEN [threw |-> TRUE, text |-> <<>>,
        err |-> Err(<<"data.response.trim is not a function">>)]
  ELSE [threw |-> FALSE, err |-> NoError, text |-> Trim(out.text)]

\* analyzeQuestionWithAI without the rule tier: a guess stands in for the
\* output it could not use
analyzeQuestionWithAIGuess(question, schemaOk, out) ==
  LET response == callOllama(out)
      parsed == JSONparse(cleanResponse(response.text))
  IN IF schemaOk /\ ~response.threw /\ parsed.ok THEN parsed.value
     ELSE Analysis("general", <<"teams", "matches">>, NoParameters, 50)

\* analyzeQuestionWithAI(question): schemaOk says whether getDatabaseSchema
\* succeeded, out is what the call of gemma3:1b came back with (it is not
\* made when the schema lookup failed)
analyzeQuestionWithAI(question, schemaOk, out) ==
  IF ~schemaOk THEN analyzeQuestion(question)
  ELSE LET response == callOllama(out)
       IN IF response.threw THEN analyzeQuestion(question)
          ELSE LET parsed == JSONparse(cleanResponse(response.text))
               IN IF parsed.ok THEN parsed.value
                  ELSE analyzeQuestion(question)

-----------------------------------------------------------------------------
(* The external calls a request of the dataset path has in flight.          *)
\* a call of an external operation, its arguments as texts
Call(op, args) == [op |-> op, args |-> args]

\* dataCalls with the two listings of the default case started together
dataCallsTogether(queryType, parameters) ==
  LET type == IF queryType = Absent THEN "undefined" ELSE queryType[1]
      p == parameters[1]
      each(op, names) == [i \in 1 .. Len(names) |-> Call(op, <<names[i]>>)]
      day(d) == IF d = Absent THEN <<"undefined">> ELSE <<ToString(d[1])>>
  IN CASE type = "team_matches" ->
            IF parameters # Absent /\ p.teamNames # Absent
            THEN each("getTeamByName", p.teamNames[1]) ELSE <<>>
       [] type = "upcoming_matches" -> <<Call("getUpcomingMatches", <<>>)>>
       [] type = "past_matches" -> <<Call("getPastMatches", <<>>)>>
       [] type = "competition_matches" ->
            IF parameters # Absent /\ p.competitionNames # Absent
            THEN each("getMatchesByCompetition", p.competitionNames[1]) ELSE <<>>
       [] type = "date_range_matches" ->
            IF parameters # Absent /\ p.dateRange # Absent
            THEN <<Call("getMatchesByDateRange",
                        <<day(p.dateRange[1].start), day(p.dateRange[1].end)>>)>>
            ELSE <<>>
       [] type = "teams_count" -> <<Call("getTeamsCount", <<>>)>>
       [] type = "matches_count" -> <<Call("getMatchesCount", <<>>)>>
       [] type = "all_teams" -> <<Call("getAllTeams", <<>>)>>
       [] type = "all_matches" -> <<Call("getAllMatches", <<>>)>>
       [] OTHER -> <<Call("getAllTeams", <<>>), Call("getAllMatches", <<>>)>>

\* the calls fetchRelevantData(queryType, parameters) has in flight at its
\* first await: Promise.all over a map starts one call per element before
\* any of them comes back
dataCalls(queryType, parameters) ==
  LET type == IF queryType = Absent THEN "undefined" ELSE queryType[1]
      p == parameters[1]
      each(op, names) == [i \in 1 .. Len(names) |-> Call(op, <<names[i]>>)]
      day(d) == IF d = Absent THEN <<"undefined">> ELSE <<ToString(d[1])>>
  IN CASE type = "team_matches" ->
            IF parameters # Absent /\ p.teamNames # Absent
            THEN each("getTeamByName", p.teamNames[1]) ELSE <<>>
       [] type = "upcoming_matches" -> <<Call("getUpcomingMatches", <<>>)>>
       [] type = "past_matches" -> <<Call("getPastMatches", <<>>)>>
       [] type = "competition_matches" ->
            IF parameters # Absent /\ p.competitionNames # Absent
            THEN each("getMatchesByCompetition", p.competitionNames[1]) ELSE <<>>
       [] type = "date_range_matches" ->
            IF parameters # Absent /\ p.dateRange # Absent
            THEN <<Call("getMatchesByDateRange",
                        <<day(p.dateRange[1].start), day(p.dateRange[1].end)>>)>>
            ELSE <<>>
       [] type = "teams_count" -> <<Call("getTeamsCount", <<>>)>>
       [] type = "matches_count" -> <<Call("getMatchesCount", <<>>)>>
       [] type = "all_teams" -> <<Call("getAllTeams", <<>>)>>
       [] type = "all_matches" -> <<Call("getAllMatches", <<>>)>>
       [] OTHER -> <<Call("getAllTeams", <<>>)>>

\* the call executeDataStrategy(strategy, parameters) has in flight at its
\* first await, the primary query
strategyCalls(strategy) ==
  LET primaryQuery == IF strategy.primaryQuery = Absent THEN "undefined"
                      ELSE strategy.primaryQuery[1]
  IN IF strategy.kind = "null" THEN <<>>
     ELSE IF primaryQuery \in {"getAllTeams", "getUpcomingMatches", "getPastMatches"}
     THEN <<Call(primaryQuery, <<>>)>>
     ELSE <<Call("getAllMatches", <<>>)>>

\* the calls executeDataStrategy has in flight after its primary query: one
\* getTeamByName per team name, started together by Promise.all
detailCalls(strategy, parameters) ==
  LET queries == IF strategy.additionalQueries = Absent THEN <<>>
                 ELSE strategy.additionalQueries[1]
  IN IF /\ \E i \in 1 .. Len(queries) : queries[i] = "getTeamByName"
        /\ parameters # Absent
        /\ parameters[1].teamNames # Absent
     THEN [i \in 1 .. Len(parameters[1].teamNames[1]) |->
             Call("getTeamByName", <<parameters[1].teamNames[1][i]>>)]
     ELSE <<>>

\* the calls queryDatabaseWithAI has in flight at position d.pc; askOllama
\* gives every model the same prompt
callsInFlight(d, modelNames) ==
  CASE d.pc = "schema" -> <<Call("getDatabaseSchema", <<>>)>>
    [] d.pc = "classify" -> <<Call("callOllama", <<<<"gemma3:1b">>, d.question>>)>>
    [] d.pc = "plan" -> <<Call("callOllama", <<<<"gemma2:2b">>, d.question>>)>>
    [] d.pc = "strategy" -> strategyCalls(d.strategy)
    [] d.pc = "strategyDetails" -> detailCalls(d.strategy, d.analysis.parameters)
    [] d.pc \in {"fetch", "fetchFallback"} ->
         dataCalls(d.analysis.queryType, d.analysis.parameters)
    [] d.pc = "generate" -> <<Call("askOllama", <<<<modelNames[d.gw.i]>>, d.question>>)>>
    [] OTHER -> <<>>

-----------------------------------------------------------------------------
(* queryDatabaseWithAI: one request, from its call to its return or throw.  *)
DbModelNames == <<"gemma2:2b", "gemma3:1b">>

DbSuffix == <<>>

DbIdle ==
  [pc |-> "idle", question |-> <<>>, includeContext |-> FALSE,
   data |-> EmptyData, analysis |-> JsonNull, strategy |-> JsonNull,
   gw |-> GatewayIdle, status |-> "pending", answer |-> <<>>,
   context |-> Absent, resultAnalysis |-> Absent, err |-> NoError,
   schemaOk |-> TRUE, classifyOut |-> Absent, parseFailures |-> {},
   queryFailed |-> FALSE, relevantData |-> Absent, failedCalls |-> {},
   planAsked |-> FALSE]

\* the calls in flight have failed
callsFailed(d) ==
  LET calls == callsInFlight(d, DbModelNames)
  IN [d EXCEPT !.failedCalls = @ \cup {calls[i] : i \in 1 .. Len(calls)}]

\* what is left once queryDatabaseWithAI has returned or thrown: its outcome
\* and the history of its calls
dbFinished(d) ==
  [DbIdle EXCEPT !.pc = "done", !.parseFailures = d.parseFailures,
                 !.queryFailed = d.queryFailed,
                 !.gw = [d.gw EXCEPT !.question = <<>>, !.context = <<>>]]

\* the request fails: the catch of queryDatabaseWithAI rethrows
dbThrow(d, error) ==
  db' = [dbFinished(d) EXCEPT !.status = "error", !.err = error]

\* the request returns { answer } or { answer, context, analysis }
dbReturn(d, answer) ==
  db' = [dbFinished(d) EXCEPT
           !.status = "answer", !.answer = answer,
           !.context = IF d.includeContext THEN Some(d.gw.context) ELSE Absent,
           !.resultAnalysis = IF d.includeContext THEN Some(d.analysis)
                              ELSE Absent]

\* steps 3 and 4: the bundle is formatted and askOllama is entered
dbAsk(d, fetchedData) ==
  db' = [d EXCEPT !.pc = "generate", !.strategy = JsonNull,
                  !.relevantData = Some(fetchedData),
                  !.gw = gatewayStart(d.question,
                                      formatDataForContext(fetchedData))]

\* fetchRelevantData in the catch of fetchRelevantDataWithAI
enterFallback(d) ==
  LET r == fetchRelevantData(d.analysis.queryType, d.analysis.parameters,
                             d.data, TRUE)
  IN IF r.queried THEN db' = [d EXCEPT !.pc = "fetchFallback",
                                       !.strategy = JsonNull]
     ELSE IF r.threw THEN dbThrow(d, r.err)
     ELSE dbAsk(d, r.value)

\* fetchRelevantData at the end of the try of fetchRelevantDataWithAI
enterFetch(d) ==
  LET r == fetchRelevantData(d.analysis.queryType, d.analysis.parameters,
                             d.data, TRUE)
  IN IF r.queried THEN db' = [d EXCEPT !.pc = "fetch", !.strategy = JsonNull]
     ELSE IF r.threw THEN enterFallback(d)
     ELSE dbAsk(d, r.value)

\* enterData with the threshold 0.8 in place of 0.7
enterDataBelow80(d) ==
  IF d.analysis.kind = "null" THEN dbThrow(d, CannotRead("queryType"))
  ELSE IF d.analysis.confidence # Absent /\ d.analysis.confidence[1] < 80
  THEN db' = [d EXCEPT !.pc = "plan", !.planAsked = TRUE]
  ELSE enterFetch(d)

\* step 2: fetchRelevantDataWithAI is entered with the analysis
enterData(d) ==
  IF d.analysis.kind = "null" THEN dbThrow(d, CannotRead("queryType"))
  ELSE IF d.analysis.confidence # Absent /\ d.analysis.confidence[1] < 70
  THEN db' = [d EXCEPT !.pc = "plan", !.planAsked = TRUE]
  ELSE enterFetch(d)

\* queryDatabaseWithAI is called; analyzeQuestionWithAI asks for the schema
DbStart(question, includeContext, data) ==
  /\ db.pc = "idle"
  /\ db' = [db EXCEPT !.pc = "schema", !.question = question,
                      !.includeContext = includeContext, !.data = data]
  /\ UNCHANGED <<memoryStores, api, doc, rule, chunker>>

\* getDatabaseSchema comes back
DbSchema(ok) ==
  /\ db.pc = "schema"
  /\ IF ok THEN db' = [db EXCEPT !.pc = "classify"]
     ELSE enterData([callsFailed(db) EXCEPT
            !.schemaOk = FALSE, !.queryFailed = TRUE,
            !.analysis = analyzeQuestionWithAI(db.question, FALSE, Reject(""))])
  /\ UNCHANGED <<memoryStores, api, doc, rule, chunker>>

\* the classification call of gemma3:1b comes back
DbClassify(out) ==
  /\ db.pc = "classify"
  /\ LET response == callOllama(out)
         failed == /\ ~response.threw
                   /\ ~JSONparse(cleanResponse(response.text)).ok
     IN enterData([(IF response.threw THEN callsFailed(db) ELSE db) EXCEPT
          !.classifyOut = Some(out),
          !.parseFailures = IF failed THEN @ \cup {"classification"} ELSE @,
          !.analysis = analyzeQuestionWithAI(db.question, TRUE, out)])
  /\ UNCHANGED <<memoryStores, api, doc, rule, chunker>>

\* the fetch-plan call of gemma2:2b comes back
DbPlan(out) ==
  /\ db.pc = "plan"
  /\ LET decision == callOllama(out)
         parsed == JSONparse(decision.text)
         started == executeDataStrategy(parsed.value, db.analysis.parameters,
                                        db.data, TRUE)
     IN IF decision.threw THEN enterFallback(callsFailed(db))
        ELSE IF ~parsed.ok
        THEN enterFetch([db EXCEPT !.parseFailures = @ \cup {"plan"}])
        ELSE IF ~started.queried THEN enterFetch(db)
        ELSE db' = [db EXCEPT !.pc = "strategy", !.strategy = parsed.value]
  /\ UNCHANGED <<memoryStores, api, doc, rule, chunker>>

\* the primary query of executeDataStrategy comes back
DbStrategy(ok) ==
  /\ db.pc = "strategy"
  /\ LET r == executeDataStrategy(db.strategy, db.analysis.parameters,
                                  db.data, ok)
         d == [(IF ok THEN db ELSE callsFailed(db)) EXCEPT !.queryFailed = @ \/ ~ok]
     IN IF r.threw THEN enterFetch(d)
        ELSE IF detailCalls(db.strategy, db.analysis.parameters) # <<>>
        THEN db' = [d EXCEPT !.pc = "strategyDetails"]
        ELSE dbAsk(d, r.value)
  /\ UNCHANGED <<memoryStores, api, doc, rule, chunker>>

\* the team lookups of executeDataStrategy come back
DbStrategyDetails(ok) ==
  /\ db.pc = "strategyDetails"
  /\ LET r == executeDataStrategy(db.strategy, db.analysis.parameters,
                                  db.data, ok)
         d == [(IF ok THEN db ELSE callsFailed(db)) EXCEPT !.queryFailed = @ \/ ~ok]
     IN IF r.threw THEN enterFetch(d) ELSE dbAsk(d, r.value)
  /\ UNCHANGED <<memoryStores, api, doc, rule, chunker>>

\* the queries of fetchRelevantData come back
DbFetch(ok) ==
  /\ db.pc = "fetch"
  /\ LET r == fetchRelevantData(db.analysis.queryType, db.analysis.parameters,
                                db.data, ok)
         d == [(IF ok THEN db ELSE callsFailed(db)) EXCEPT !.queryFailed = @ \/ ~ok]
     IN IF r.threw THEN enterFallback(d) ELSE dbAsk(d, r.value)
  /\ UNCHANGED <<memoryStores, api, doc, rule, chunker>>

\* the queries of fetchRelevantData, called again in the catch, come back
DbFetchFallback(ok) ==
  /\ db.pc = "fetchFallback"
  /\ LET r == fetchRelevantData(db.analysis.queryType, db.analysis.parameters,
                                db.data, ok)
         d == [(IF ok THEN db ELSE callsFailed(db)) EXCEPT !.queryFailed = @ \/ ~ok]
     IN IF r.threw THEN dbThrow(d, r.err) ELSE dbAsk(d, r.value)
  /\ UNCHANGED <<memoryStores, api, doc, rule, chunker>>

\* a generation call of askOllama comes back
DbGenerate(out) ==
  /\ db.pc = "generate"
  /\ LET g == gatewayStep(DbModelNames, DbSuffix, db.gw, out)
         stepped == [(IF g.status = "returned" THEN db ELSE callsFailed(db)) EXCEPT
                       !.gw = g]
     IN IF g.status = "returned" THEN dbReturn(stepped, g.value)
        ELSE IF g.status = "threw" THEN dbThrow(stepped, g.err)
        ELSE db' = stepped
  /\ UNCHANGED <<memoryStores, api, doc, rule, chunker>>

DbNext ==
  \/ \E q \in Questions, includeContext \in BOOLEAN, data \in Datasets :
       DbStart(q, includeContext, data)
  \/ \E ok \in BOOLEAN : DbSchema(ok)
  \/ \E out \in ClassifyOutcomes : DbClassify(out)
  \/ \E out \in PlanOutcomes : DbPlan(out)
  \/ \E ok \in BOOLEAN : DbStrategy(ok)
  \/ \E ok \in BOOLEAN : DbStrategyDetails(ok)
  \/ \E ok \in BOOLEAN : DbFetch(ok)
  \/ \E ok \in BOOLEAN : DbFetchFallback(ok)
  \/ \E out \in GenerateOutcomes : DbGenerate(out)

-----------------------------------------------------------------------------
(* The rule tier driven directly: analyzeQuestion applied to questions made *)
(* of a few phrases separated by single spaces.                            *)

Phrases ==
  {Question.teamsCount, Keyword.count, Keyword.total, Keyword.team,
   Keyword.match, Keyword.league, Keyword.next}

RuleQuestions == {Join(ps, <<" ">>) : ps \in SeqsUpTo(Phrases, MaxPhrases)}

\* this.analyzeQuestion(question), called once
RuleAnalyze(question) ==
  /\ ~rule.asked
  /\ rule' = [asked |-> TRUE, question |-> question,
              analysis |-> analyzeQuestion(question)]
  /\ UNCHANGED <<memoryStores, api, doc, db, chunker>>

RuleNext == \E question \in RuleQuestions : RuleAnalyze(question)

-----------------------------------------------------------------------------
(* The chunker driven directly: splitTextIntoChunks applied to texts made   *)
(* of a few sentences separated by single spaces.                          *)

\* sentences of 9, 10 and 16 characters, one of them of many words, and a
\* blank
ChunkTexts ==
  LET pieces == {<<"H", "i", " ", "t", "h", "e", "r", "e", ".">>,
                 <<"H", "e", "l", "l", "o", " ", "y", "o", "u", ".">>,
                 <<"G", "o", "o", "d", " ", "d", "a", "y", " ", "t", "o", " ",
                   "y", "o", "u", ".">>,
                 <<"A", " ", "b", " ", "c", " ", "d", " ", "e", " ", "f", " ",
                   "g", " ", "h", "!">>,
                 <<" ">>}
  IN {Join(ps, <<" ">>) : ps \in SeqsUpTo(pieces, MaxSentences)}

\* this.splitTextIntoChunks(text, chunkSize, overlap), called once
ChunkSplit(text, chunkSize, overlap) ==
  /\ ~chunker.called
  /\ chunker' =
       [called |-> TRUE, text |-> text, chunkSize |-> chunkSize,
        overlap |-> overlap,
        seeds |-> chunkLoop(SplitSentences(text), 1, <<>>, <<>>, <<>>,
                            chunkSize, overlap).seeds,
        candidates |-> candidateChunks(text, chunkSize, overlap),
        chunks |-> splitTextIntoChunks(text, chunkSize, overlap)]
  /\ UNCHANGED <<memoryStores, api, doc, db, rule>>

ChunkNext ==
  \E text \in ChunkTexts, chunkSize \in {12, 20, 40}, overlap \in {0, 5, 10, 25} :
    ChunkSplit(text, chunkSize, overlap)


Init ==
  /\ memoryStores = EmptyMap
  /\ api = [op |-> "none", id |-> "r1", q |-> <<>>, topK |-> 0, live |-> {},
            released |-> {}, result |-> NoResult]
  /\ doc = [r \in RequestIds |-> DocIdle]
  /\ db = DbIdle
  /\ rule = [asked |-> FALSE, question |-> <<>>, analysis |-> JsonNull]
  /\ chunker = [called |-> FALSE, text |-> <<>>, chunkSize |-> 0, overlap |-> 0,
                seeds |-> <<>>, candidates |-> <<>>, chunks |-> <<>>]

StoreSpec == Init /\ [][StoreNext]_vars

DocSpec == Init /\ [][DocNext]_vars

\* the awaited call of request r comes back, with a result or a failure
DocCallReturns(r) ==
  \/ \E c \in {"PDF file not found", "Invalid PDF structure"} : DocExtractFail(r, c)
  \/ \E t \in Docs : DocExtract(r, t)
  \/ \E out \in EmbedOutcomes("chunks") : DocEmbedChunk(r, out)
  \/ \E out \in EmbedOutcomes("question") : DocEmbedQuestion(r, out)
  \/ \E out \in GenerateOutcomes : DocGenerate(r, out)

\* the document path when every awaited call eventually comes back
DocLiveSpec ==
  Init /\ [][DocNext]_vars /\ \A r \in RequestIds : WF_vars(DocCallReturns(r))

DbSpec == Init /\ [][DbNext]_vars

RuleSpec == Init /\ [][RuleNext]_vars

ChunkSpec == Init /\ [][ChunkNext]_vars

-----------------------------------------------------------------------------
(* Properties.                                                             *)

\* C1: every key of memoryStores belongs to a request that is still in
\* flight; a request that has finished, with an answer, the sentinel answer
\* or a failure at any stage, has no entry.
C1_StoreEntriesInFlight ==
  \A r \in RequestIds : r \in DOMAIN memoryStores => InFlight(r)

\* a request stored its records, failed in generation, and has finished
C1_Witness ==
  \E r \in RequestIds :
    /\ doc[r].pc = "done" /\ doc[r].status = "error"
    /\ doc[r].puts = 1 /\ doc[r].gw.status = "threw"
    /\ r \notin DOMAIN memoryStores

\* C4: when the search returns no chunk or a top score below 0.1, the
\* request returns the sentinel answer as a normal result and no generation
\* call is made for it.
C4_SentinelWithoutGeneration ==
  \A r \in RequestIds :
    (/\ doc[r].searches = 1 /\ ~doc[r].searchThrew
     /\ doc[r].top.n = 0 \/ doc[r].top.score.num * 100 < doc[r].top.score.den)
    => /\ doc[r].pc = "done"
       /\ doc[r].status = "answer"
       /\ doc[r].answer = NoRelevantAnswer
       /\ doc[r].gw.calls = <<>>

\* a search over three chunks whose best score is 0
C4_Witness ==
  \E r \in RequestIds :
    /\ doc[r].searches = 1 /\ ~doc[r].searchThrew
    /\ doc[r].top.n = 3 /\ doc[r].top.score.num = 0
    /\ doc[r].answer = NoRelevantAnswer

\* C5: a search that returns gives min(topK, n) of the n stored records,
\* in non-increasing score order with equal scores in insertion order, and
\* every record left out ranks after every record returned.
C5_SearchRanking ==
  (api.op = "search" /\ ~api.result.threw) =>
    LET store == memoryStores[api.id]
        n == Len(store)
        res == api.result.chunks
        sc(i) == cosineSimilarity(api.q, store[i].embedding).score
        Before(a, b) == \/ sc(b).num * sc(a).den < sc(a).num * sc(b).den
                        \/ /\ sc(b).num * sc(a).den = sc(a).num * sc(b).den
                           /\ a < b
    IN /\ Len(res) = (IF api.topK < n THEN api.topK ELSE n)
       /\ \E f \in [1 .. Len(res) -> 1 .. n] :
            /\ \A j \in 1 .. Len(res) :
                 res[j] = [text |-> store[f[j]].text, score |-> sc(f[j])]
            /\ \A j, k \in 1 .. Len(res) : j < k => Before(f[j], f[k])
            /\ \A i \in 1 .. n :
                 (\A j \in 1 .. Len(res) : f[j] # i) =>
                   \A j \in 1 .. Len(res) : Before(f[j], i)

\* records scoring high, low, middle searched with topK = 2: the first
\* and the third come back
C5_Witness ==
  /\ api.op = "search" /\ api.topK = 2 /\ ~api.result.threw
  /\ api.id \in DOMAIN memoryStores
  /\ Len(memoryStores[api.id]) = 3
  /\ LET sc(i) == cosineSimilarity(api.q, memoryStores[api.id][i].embedding).score
     IN ScoreLess(sc(2), sc(3)) /\ ScoreLess(sc(3), sc(1))
  /\ Len(api.result.chunks) = 2
  /\ api.result.chunks[1].text = <<ChunkNames[1]>>
  /\ api.result.chunks[2].text = <<ChunkNames[3]>>

\* C6: a search for an id that has no entry, never put or released since,
\* fails with "No embeddings found for this request" and returns nothing.
C6_SearchWithoutStoreFails ==
  (api.op = "search" /\ api.id \notin api.live) =>
    /\ api.result.threw
    /\ api.result.err = Err(<<"No embeddings found for this request">>)
    /\ api.result.chunks = <<>>

\* a search for an id that was put and then released
C6_Witness ==
  /\ api.op = "search" /\ api.id \in api.released
  /\ api.result.threw

\* C7: a failed embedding call is the last embedding call of its request;
\* when it is a call for a chunk, nothing is put in the store and neither
\* the question embedding, the search nor a generation call happens.
C7_EmbeddingFailureAborts ==
  \A r \in RequestIds :
    LET calls == doc[r].embedCalls
    IN \A j \in 1 .. Len(calls) :
         ~calls[j].ok =>
           /\ j = Len(calls)
           /\ doc[r].pc = "done" /\ doc[r].status = "error"
           /\ calls[j].phase = "chunks" =>
                /\ doc[r].puts = 0 /\ r \notin DOMAIN memoryStores
                /\ doc[r].searches = 0
                /\ doc[r].gw.calls = <<>>

\* the embedding of the second of three chunks fails
C7_Witness ==
  \E r \in RequestIds :
    /\ Len(doc[r].embedCalls) = 2
    /\ doc[r].embedCalls[1].ok /\ ~doc[r].embedCalls[2].ok
    /\ doc[r].embedCalls[2].phase = "chunks"
    /\ doc[r].pc = "done"


\* C2: askOllama calls the models in the order of its list, each at most
\* once, and the first call with a success status and a non-empty response
\* text wins: its trimmed text is the answer and no later model is called; a
\* model whose call fails is passed over and the next one is called.
C2_FirstSuccessWins ==
  LET g == db.gw
      n == Len(g.calls)
      Succeeds(out) == /\ out.kind = "http" /\ HttpOk(out.status) /\ out.json
                       /\ out.rtype = "string" /\ out.text # <<>>
  IN /\ n <= Len(DbModelNames) /\ g.calls = SubSeq(DbModelNames, 1, n)
     /\ \A i, j \in 1 .. n : i # j => g.calls[i] # g.calls[j]
     /\ Len(g.outcomes) = n
     /\ \A i \in 1 .. n - 1 : ~Succeeds(g.outcomes[i])
     /\ n >= 1 /\ Succeeds(g.outcomes[n]) =>
          /\ g.status = "returned" /\ g.value = Trim(g.outcomes[n].text)
          /\ db.status = "answer" /\ db.answer = g.value
     /\ g.status = "returned" => n >= 1 /\ Succeeds(g.outcomes[n])
     /\ n >= 1 /\ n < Len(DbModelNames) /\ ~Succeeds(g.outcomes[n]) =>
          g.status = "calling" /\ g.i = n + 1

\* the first model answers 500, the second answers { response: "ok" }
C2_Witness ==
  /\ db.gw.calls = DbModelNames
  /\ db.gw.outcomes[1] = Http(500, FALSE, "missing", <<>>)
  /\ db.gw.outcomes[2] = Http(200, TRUE, "string", <<"o", "k">>)
  /\ db.status = "answer" /\ db.answer = <<"o", "k">>

\* C3: askOllama throws its all-models-failed error only when every model
\* of the list has been called and has failed, and the message of the error
\* carries the message of the failure of the last model.
C3_AllModelsFailed ==
  LET g == db.gw
      n == Len(g.calls)
      cause == tryModel(g.calls[n], g.outcomes[n]).lastError
  IN /\ g.status = "threw" =>
          /\ g.calls = DbModelNames
          /\ \A i \in 1 .. n : ~tryModel(g.calls[i], g.outcomes[i]).returned
          /\ g.outcomes[n].kind = "reject" => cause = g.outcomes[n].err
          /\ g.err.msg = <<"Ollama LLM failed: ",
                           "All models failed. Last error: ">> \o cause.msg
          /\ db.status = "error" /\ db.err = g.err
     /\ (/\ g.calls = DbModelNames
         /\ \A i \in 1 .. n : ~tryModel(g.calls[i], g.outcomes[i]).returned)
        => g.status = "threw"

\* both models fail: the first answers 500, the call of the second is refused
C3_Witness ==
  /\ db.gw.status = "threw"
  /\ db.gw.outcomes[1] = Http(500, FALSE, "missing", <<>>)
  /\ db.gw.outcomes[2] = Reject("ECONNREFUSED")
  /\ db.status = "error"

\* C8: when the schema lookup fails, or the classification call fails, or
\* its response, with code fences removed and trimmed, is not JSON, the
\* analysis the request goes on with is the rule tier's analysis of the
\* question.
C8_FallbackIsRuleTier ==
  LET out == db.classifyOut[1]
      unavailable ==
        \/ ~db.schemaOk
        \/ /\ db.classifyOut # Absent
           /\ \/ out.kind = "reject"
              \/ ~HttpOk(out.status)
              \/ ~out.json
              \/ out.rtype # "string"
      unparsable ==
        /\ db.schemaOk /\ db.classifyOut # Absent /\ ~unavailable
        /\ ~JSONparse(cleanResponse(Trim(out.text))).ok
  IN (db.pc \in {"plan", "strategy", "fetch", "fetchFallback", "generate"}
      /\ (unavailable \/ unparsable))
     => db.analysis = analyzeQuestion(db.question)

\* the model wraps a teams_count classification in prose: the request goes on
\* with the rule tier's team_matches
C8_Witness ==
  /\ db.pc = "fetch"
  /\ db.question = Question.teamMatches
  /\ db.classifyOut =
       Some(Http(200, TRUE, "string", <<Prose, "\n", Json.teamsCount.text>>))
  /\ db.analysis.queryType = Some("team_matches")

\* C9: a request in which the classification text or the fetch-plan text did
\* not parse, and no query of the data source failed, does not end before it
\* has called the answer gateway.
C9_ParseFailureRecovered ==
  (db.pc = "done" /\ db.parseFailures # {} /\ ~db.queryFailed)
  => db.gw.calls # <<>>

\* C10: the context handed to the answer gateway is never the empty string.
C10_ContextNonEmpty ==
  db.pc = "generate" => db.gw.context # <<>>

C12_RefusedIsCannotConnect ==
  (/\ db.gw.status = "threw"
   /\ \A i \in 1 .. Len(db.gw.outcomes) :
        db.gw.outcomes[i] = Reject("ECONNREFUSED"))
  => db.err = Err(<<"Cannot connect to Ollama. Make sure Ollama is running on http://localhost:11434">>)

\* C13: an embedding call that the endpoint refuses fails the request with
\* the cannot-connect error, and any rejected call fails it with an error
\* other than the invalid-response error, which is the one reported for a
\* 2xx JSON response whose embedding field is missing or not an array; a
\* non-2xx status fails the request as well.
C13_EmbeddingFailuresDistinct ==
  \A r \in RequestIds :
    LET d == doc[r]
        n == Len(d.embedCalls)
        invalid == Err(<<"Ollama embedding failed: ",
                         "Invalid embedding response from Ollama">>)
    IN (n > 0 /\ d.embedCalls[n].failure # <<>>) =>
         LET out == d.embedCalls[n].failure[1]
         IN /\ d.pc = "done" /\ d.status = "error"
            /\ out.kind = "reject" => d.err # invalid
            /\ (out.kind = "reject" /\ out.err.code = "ECONNREFUSED") =>
                 d.err = Err(<<"Cannot connect to Ollama. Make sure Ollama is running on http://localhost:11434">>)
            /\ (out.kind = "http" /\ HttpOk(out.status) /\ out.json
                /\ out.etype # "array") => d.err = invalid

\* one request refused at an embedding call and the other one answered
\* without an embedding array
C13_Witness ==
  /\ doc["r1"].embedCalls # <<>>
  /\ doc["r2"].embedCalls # <<>>
  /\ doc["r1"].embedCalls[Len(doc["r1"].embedCalls)].failure
       = <<EmbedReject("ECONNREFUSED")>>
  /\ doc["r2"].embedCalls[Len(doc["r2"].embedCalls)].failure
       = <<EmbedHttp(200, TRUE, "missing", <<>>)>>
  /\ doc["r1"].err # doc["r2"].err

\* C14: for a three-chunk document whose second chunk scores 0.82 against the
\* question and whose other two chunks score below 0.1, the context given to
\* the generation call is the text of the second chunk and nothing else.
C14_ContextIsRelevantChunk ==
  \A r \in RequestIds :
    LET d == doc[r]
        found == d.relevantChunks
    IN (/\ d.pc = "generate"
        /\ Len(d.chunks) = 3 /\ Len(found) = 3
        /\ found[1].text = d.chunks[2]
        /\ found[1].score.num * 2500 = 1681 * found[1].score.den
        /\ BelowThreshold(found[2].score)
        /\ BelowThreshold(found[3].score))
       => d.gw.context = d.chunks[2]

\* C15: a request whose text gives no chunk after the short-chunk filter ends
\* with the error 'No valid text chunks found in PDF', having made no
\* embedding call and having put nothing in the vector store.
C15_NoChunksFailsEarly ==
  \A r \in RequestIds :
    doc[r].noChunks =>
      /\ doc[r].pc = "done" /\ doc[r].status = "error"
      /\ doc[r].err = Err(<<"No valid text chunks found in PDF">>)
      /\ doc[r].embedCalls = <<>>
      /\ doc[r].puts = 0
      /\ r \notin DOMAIN memoryStores

\* a request with the nine-character text has failed while the other one is
\* past its first embedding call
C15_Witness ==
  /\ doc["r1"].noChunks /\ doc["r1"].status = "error"
  /\ doc["r2"].embedCalls # <<>>

\* C16 as stated: a question with a count keyword ('how many', 'count' or
\* 'total') and 'team' classifies to teams_count with confidence at least 0.9.
C16_CountAndTeamIsTeamsCount ==
  LET has(kw) == includes(toLowerCase(rule.question), kw)
  IN (/\ rule.asked
      /\ has(Keyword.howMany) \/ has(Keyword.count) \/ has(Keyword.total)
      /\ has(Keyword.team))
     => /\ rule.analysis.queryType = Some("teams_count")
        /\ rule.analysis.confidence[1] >= 90

\* C16 amended: a question with a count keyword and 'team' that has none of
\* the keywords of the rules tried earlier ('match', 'game', 'upcoming',
\* 'next', 'future', 'competition', 'league', 'tournament') classifies to
\* teams_count with confidence at least 0.9.
C16_CountAndTeamOnlyIsTeamsCount ==
  LET has(kw) == includes(toLowerCase(rule.question), kw)
  IN (/\ rule.asked
      /\ has(Keyword.howMany) \/ has(Keyword.count) \/ has(Keyword.total)
      /\ has(Keyword.team)
      /\ ~ \E k \in {"match", "game", "upcoming", "next", "future",
                     "competition", "league", "tournament"} : has(Keyword[k]))
     => /\ rule.analysis.queryType = Some("teams_count")
        /\ rule.analysis.confidence[1] >= 90

\* the rule tier has classified "How many teams are in the database?"
C16_Witness ==
  /\ rule.asked
  /\ rule.question = Question.teamsCount
  /\ rule.analysis.queryType = Some("teams_count")

\* C17: the bundle the dataset path fetches never holds more than 50 rows,
\* whichever query type or fetch plan produced it: neither its array, nor its
\* teams, matches or team details.
C17_RowsCapped ==
  db.relevantData # Absent =>
    LET data == db.relevantData[1].data
    IN /\ Len(data.items) <= 50
       /\ data.teams # Absent => Len(data.teams[1]) <= 50
       /\ data.matches # Absent => Len(data.matches[1]) <= 50
       /\ data.teamDetails # Absent => Len(data.teamDetails[1]) <= 50

\* C18: with two document requests interleaved in every way, the entry of a
\* request holds exactly the records that request stored, its search result
\* is the ranking of those records against its own question, and a step of
\* one request (its put and its release included) leaves the entry of the
\* other request as it was.
C18_OwnKeyOnly ==
  /\ [](\A r \in RequestIds :
          LET d == doc[r]
              own == [i \in 1 .. Len(d.chunks) |->
                        [text |-> d.chunks[i], embedding |-> d.embeddings[i]]]
          IN /\ d.pc \in {"embedQuestion", "generate"} =>
                  /\ r \in DOMAIN memoryStores
                  /\ memoryStores[r] = own
             /\ d.pc = "generate" =>
                  d.relevantChunks =
                    searchRelevantChunks(MapSet(EmptyMap, r, own),
                                         d.questionEmbedding, r, DocTopK).chunks)
  /\ [][\A a, b \in RequestIds :
          (a # b /\ doc'[a] # doc[a]) =>
            /\ (b \in DOMAIN memoryStores') = (b \in DOMAIN memoryStores)
            /\ b \in DOMAIN memoryStores => memoryStores'[b] = memoryStores[b]]_vars

\* one request has stored and released its records while the other one,
\* with a search result over three records, still has its entry
C18_Witness ==
  /\ doc["r1"].pc = "done" /\ doc["r1"].puts = 1
  /\ doc["r2"].pc = "generate" /\ Len(doc["r2"].relevantChunks) = 3
  /\ "r2" \in DOMAIN memoryStores /\ "r1" \notin DOMAIN memoryStores

C20_NoFailedCallAgain ==
  LET calls == callsInFlight(db, DbModelNames)
  IN \A i \in 1 .. Len(calls) : calls[i] \notin db.failedCalls

\* C21: once a request of the dataset path is past classification, the
\* fetch-plan call has been made exactly if the confidence of its
\* classification is below 0.7; at 0.7 or above the request goes from the
\* classification to the direct mapping without a model call in between.
C21_PlanIffLowConfidence ==
  db.pc \in {"plan", "strategy", "strategyDetails", "fetch", "fetchFallback",
             "generate"} =>
    db.planAsked = (/\ db.analysis.confidence # Absent
                    /\ db.analysis.confidence[1] < 70)

\* a classification of confidence exactly 0.7 is fetched by the direct
\* mapping, without a fetch-plan call
C21_Witness ==
  /\ db.pc = "fetch"
  /\ db.analysis.confidence = Some(70)
  /\ ~db.planAsked

\* C22: after a fetch-plan text that does not parse, the classification whose
\* direct mapping is fetched is the rule tier's classification of the
\* question, and, no query of the data source failing, the request does not
\* end before it has called the answer gateway.
C22_MalformedPlanFallsBack ==
  "plan" \in db.parseFailures =>
    /\ db.pc \in {"fetch", "fetchFallback", "generate"} =>
         db.analysis = analyzeQuestion(db.question)
    /\ (db.pc = "done" /\ ~db.queryFailed) => db.gw.calls # <<>>

\* C23: the classification a request of the dataset path retrieves with is
\* an object whose queryType is one of the ten query types, whose parameters
\* are present and whose confidence is a number from 0 to 1.
C23_ClassificationValid ==
  db.pc \in {"plan", "strategy", "strategyDetails", "fetch", "fetchFallback",
             "generate"} =>
    /\ db.analysis.kind = "object"
    /\ db.analysis.queryType # Absent
    /\ db.analysis.queryType[1] \in
         {"team_matches", "upcoming_matches", "past_matches",
          "competition_matches", "teams_count", "matches_count", "all_teams",
          "all_matches", "date_range_matches", "general"}
    /\ db.analysis.parameters # Absent
    /\ db.analysis.confidence # Absent
    /\ db.analysis.confidence[1] \in 0 .. 100

\* C24: the rule tier gives confidence 0.7, 0.8 or 0.9 to a question that a
\* rule matches and the type general with confidence 0.5 to a question that
\* no rule matches; confidence 0.5 goes with the type general and with no
\* other type.
C24_FixedConfidencePerRule ==
  rule.asked =>
    LET has(kw) == includes(toLowerCase(rule.question), kw)
        counting == has(Keyword.howMany) \/ has(Keyword.count) \/ has(Keyword.total)
        playing == has(Keyword.match) \/ has(Keyword.game)
        matched == \/ has(Keyword.team) /\ playing
                   \/ has(Keyword.upcoming) \/ has(Keyword.next) \/ has(Keyword.future)
                   \/ has(Keyword.competition) \/ has(Keyword.league)
                   \/ has(Keyword.tournament)
                   \/ counting /\ (has(Keyword.team) \/ playing)
        type == rule.analysis.queryType[1]
        confidence == rule.analysis.confidence[1]
    IN /\ confidence \in {50, 70, 80, 90}
       /\ (type = "general") = (confidence = 50)
       /\ (type = "general") = ~matched

\* a question with a count keyword and nothing to count matches no rule
C24_Witness ==
  /\ rule.asked
  /\ rule.question = Keyword.count
  /\ rule.analysis.queryType = Some("general")
  /\ rule.analysis.confidence = Some(50)

\* C25 as stated: every candidate chunk has at most chunkSize characters
\* unless it is one single sentence that is itself longer than chunkSize.
C25_ChunkWithinSize ==
  chunker.called =>
    LET sentences == SplitSentences(chunker.text)
    IN \A i \in 1 .. Len(chunker.candidates) :
         LET chunk == chunker.candidates[i]
         IN \/ Len(chunk) <= chunker.chunkSize
            \/ \E j \in 1 .. Len(sentences) :
                 /\ chunk = Trim(sentences[j])
                 /\ Len(sentences[j]) > chunker.chunkSize

\* C25 amended: every candidate chunk has at most chunkSize characters
\* unless it is one single sentence preceded by the words kept from the
\* chunk closed before it.
C25_ChunkWithinSizeButSeed ==
  chunker.called =>
    LET sentences == SplitSentences(chunker.text)
    IN \A i \in 1 .. Len(chunker.candidates) :
         LET chunk == chunker.candidates[i]
             seed == IF i = 1 THEN <<>>
                     ELSE Join(chunker.seeds[i - 1], <<" ">>) \o <<" ">>
         IN \/ Len(chunk) <= chunker.chunkSize
            \/ \E j \in 1 .. Len(sentences) : chunk = Trim(seed \o sentences[j])

\* a chunk within the size, then a chunk longer than the size made of two
\* kept words and one sentence
C25_Witness ==
  /\ chunker.called
  /\ chunker.chunkSize = 20 /\ chunker.overlap = 25
  /\ Len(chunker.candidates) = 2
  /\ Len(chunker.candidates[1]) <= 20
  /\ Len(chunker.candidates[2]) > 20
  /\ Len(chunker.seeds[1]) = 2

\* C26: when a chunk is closed, the words kept for the next chunk are
\* exactly the trailing overlap \div 10 words of the closed chunk, none when
\* the overlap is below 10.
C26_SeedIsTrailingWords ==
  chunker.called =>
    \A i \in 1 .. Len(chunker.seeds) :
      LET words == SplitOnSpace(chunker.candidates[i])
          k == chunker.overlap \div 10
          from == IF k >= Len(words) THEN 1 ELSE Len(words) - k + 1
      IN chunker.seeds[i] = SubSeq(words, from, Len(words))

\* C27 as stated: a candidate chunk is dropped if and only if it has fewer
\* than 10 characters.
C27_DroppedIffBelowTen ==
  chunker.called =>
    LET kept(chunk) == Len(chunk) >= 10
    IN chunker.chunks = SelectSeq(chunker.candidates, kept)

\* C27 amended: a candidate chunk is dropped if and only if it has at most 10
\* characters.
C27_DroppedIffAtMostTen ==
  chunker.called =>
    LET kept(chunk) == Len(chunk) >= 11
    IN chunker.chunks = SelectSeq(chunker.candidates, kept)

\* a candidate of exactly ten characters is dropped and a longer one returned
C27_Witness ==
  /\ chunker.called
  /\ \E i \in 1 .. Len(chunker.candidates) : Len(chunker.candidates[i]) = 10
  /\ chunker.chunks # <<>>
  /\ \A i \in 1 .. Len(chunker.chunks) : Len(chunker.chunks[i]) > 10

\* C28 as stated: a non-empty text shorter than chunkSize gives exactly one
\* chunk.
C28_ShortTextOneChunk ==
  (chunker.called /\ chunker.text # <<>> /\ Len(chunker.text) < chunker.chunkSize)
    => Len(chunker.chunks) = 1

\* C28 amended: a non-empty text shorter than chunkSize gives its sentences,
\* joined by single spaces and trimmed, as the one chunk when that has more
\* than 10 characters, and no chunk otherwise.
C28_ShortTextAtMostOneChunk ==
  (chunker.called /\ chunker.text # <<>> /\ Len(chunker.text) < chunker.chunkSize)
    => LET joined == Trim(Join(SplitSentences(chunker.text), <<" ">>))
       IN chunker.chunks = IF Len(joined) > 10 THEN <<joined>> ELSE <<>>

\* a text of several sentences shorter than chunkSize comes back as one chunk
C28_Witness ==
  /\ chunker.called
  /\ Len(chunker.text) < chunker.chunkSize
  /\ Len(SplitSentences(chunker.text)) >= 2
  /\ Len(chunker.chunks) = 1
  /\ Len(chunker.chunks[1]) < Len(chunker.text)

\* C29 as stated: a search over records of the question's length does not
\* fail; a zero question gives every record the score 0; a stored record
\* with a zero embedding is given the score 0 and no record returned after
\* it has a lower score.
C29_ZeroNormRanksLast ==
  (api.op = "search" /\ api.id \in DOMAIN memoryStores /\ Len(api.q) = 2) =>
    LET store == memoryStores[api.id]
        res == api.result.chunks
    IN /\ ~api.result.threw
       /\ NormSq(api.q) = 0 => \A j \in 1 .. Len(res) : res[j].score = ZeroScore
       /\ \A i \in 1 .. Len(store) : \A j \in 1 .. Len(res) :
            (NormSq(store[i].embedding) = 0 /\ res[j].text = store[i].text) =>
              /\ res[j].score = ZeroScore
              /\ \A k \in j + 1 .. Len(res) : ~ScoreLess(res[k].score, res[j].score)

\* C29 amended: as above, but the record with a zero embedding ranks by its
\* score 0, after every record of positive score and before every record of
\* negative score.
C29_ZeroNormRanksAtZero ==
  (api.op = "search" /\ api.id \in DOMAIN memoryStores /\ Len(api.q) = 2) =>
    LET store == memoryStores[api.id]
        res == api.result.chunks
    IN /\ ~api.result.threw
       /\ NormSq(api.q) = 0 => \A j \in 1 .. Len(res) : res[j].score = ZeroScore
       /\ \A i \in 1 .. Len(store) : \A j \in 1 .. Len(res) :
            (NormSq(store[i].embedding) = 0 /\ res[j].text = store[i].text) =>
              /\ res[j].score = ZeroScore
              /\ \A k \in 1 .. j - 1 : res[k].score.num >= 0
              /\ \A k \in j + 1 .. Len(res) : res[k].score.num <= 0

\* a record with a zero embedding, stored first, comes back second, between
\* a record of positive and a record of negative score
C29_Witness ==
  /\ api.op = "search" /\ api.id \in DOMAIN memoryStores /\ ~api.result.threw
  /\ Len(memoryStores[api.id]) = 3
  /\ NormSq(memoryStores[api.id][1].embedding) = 0
  /\ Len(api.result.chunks) = 3
  /\ api.result.chunks[1].score.num > 0
  /\ api.result.chunks[2].text = <<ChunkNames[1]>>
  /\ api.result.chunks[3].score.num < 0

\* C30: when every awaited call comes back, a request does not stay in
\* flight: it is again and again found idle or ended, and once it has been
\* called that is ended, with an answer or an error and with its store entry
\* released; it makes at most one embedding call per chunk and one for the
\* question, and at most one generation call per model name.
C30_RequestTerminates ==
  /\ [](\A r \in RequestIds :
          LET calls == doc[r].embedCalls
              gcalls == doc[r].gw.calls
          IN /\ \A j, k \in 1 .. Len(calls) :
                  (calls[j].phase = calls[k].phase /\ calls[j].index = calls[k].index)
                    => j = k
             /\ \A j \in 1 .. Len(calls) :
                  /\ calls[j].phase = "question" => calls[j].index = 1
                  /\ (calls[j].phase = "chunks" /\ InFlight(r))
                       => calls[j].index <= Len(doc[r].chunks)
             /\ Len(gcalls) <= Len(DocModelNames)
             /\ \A j \in 1 .. Len(gcalls) : gcalls[j] = DocModelNames[j]
             /\ doc[r].pc = "done" => /\ doc[r].status \in {"answer", "error"}
                                      /\ r \notin DOMAIN memoryStores)
  /\ \A r \in RequestIds : []<>(~InFlight(r))

\* a request that embedded several chunks and the question and made one
\* generation call has ended with an answer and its entry is released
C30_Witness ==
  \E r \in RequestIds :
    /\ doc[r].pc = "done" /\ doc[r].status = "answer"
    /\ Len(doc[r].embedCalls) >= 3
    /\ Len(doc[r].gw.calls) = 1
    /\ doc[r].puts = 1
    /\ r \notin DOMAIN memoryStores
====
